---- MODULE Spec2Model ----
(***************************************************************************)
(* Line-oriented instruction simulators of asm_console: the ARM64-like     *)
(* engine (src/assembler.js) and the x86-64-like engine                    *)
(* (src/x86_assembler.js).                                                 *)
(*                                                                         *)
(* Text is modelled by what the code does with it.  A token is a tuple of  *)
(* one-character strings, so that toUpperCase, startsWith, replace and     *)
(* parseInt are computed character by character.  A source line is the     *)
(* tuple of its lexemes: the maximal runs of characters other than white   *)
(* space and commas, with the comment markers "//" and ";" as lexemes of   *)
(* their own.                                                              *)
(*                                                                         *)
(* Register values are BigInt in the code: exact, unbounded integers.  The *)
(* only width the code knows is the 64-bit window of the carry check       *)
(* (mask64).  The model keeps the values exact and scales the window to    *)
(* WordBits bits, so that values on both sides of the window are reached.  *)
(***************************************************************************)
EXTENDS Integers, Sequences, FiniteSets, TLC

(* ---------------------------------------------------------------- bounds *)

\* Width of the carry window (64 in the code, scaled).
WordBits == 10

\* Width of the mantissa of a Number (53 in the code, scaled): parseInt
\* returns a Number, and larger integers are rounded to this many bits.
MantissaBits == 8

\* Largest number of lines of a source text.
MaxLines == 2

\* Largest number of timer callbacks that wait to be run.
MaxTimers == 2

(* ------------------------------------------------------------- constants *)

\* this.sp = 0x7FFFFFF0n
StackSentinel == 2147483632

\* result & 0xFFn : the parity flag looks at the low 8 bits
ParityBits == 8

\* for (let i = 0; i < 31; i++) this.registers[`X${i}`] = 0n
NumXRegisters == 31

\* const mask64 = (1n << 64n) - 1n, at the scaled width
mask64 == (2 ^ WordBits) - 1

(* ------------------------------------------------------------ characters *)

LowerLetters ==
  <<"a","b","c","d","e","f","g","h","i","j","k","l","m",
    "n","o","p","q","r","s","t","u","v","w","x","y","z">>

UpperLetters ==
  <<"A","B","C","D","E","F","G","H","I","J","K","L","M",
    "N","O","P","Q","R","S","T","U","V","W","X","Y","Z">>

DigitChars == <<"0","1","2","3","4","5","6","7","8","9">>

\* String.prototype.toUpperCase on one character
UpperChar(c) ==
  IF \E k \in 1..26 : LowerLetters[k] = c
    THEN UpperLetters[CHOOSE k \in 1..26 : LowerLetters[k] = c]
    ELSE c

\* String.prototype.toUpperCase
toUpperCase(s) == [k \in 1..Len(s) |-> UpperChar(s[k])]

\* String.prototype.startsWith
startsWith(s, p) == Len(s) >= Len(p) /\ SubSeq(s, 1, Len(p)) = p

\* String.prototype.replace(c, '') : removes the first occurrence of c
removeFirst(s, c) ==
  IF \E k \in 1..Len(s) : s[k] = c
    THEN LET k == CHOOSE j \in 1..Len(s) : s[j] = c /\ \A h \in 1..(j-1) : s[h] # c
         IN  SubSeq(s, 1, k-1) \o SubSeq(s, k+1, Len(s))
    ELSE s

\* Value of a character as a digit of the given radix, -1 when it is none.
DigitValue(c, radix) ==
  LET u == UpperChar(c)
      v == IF \E k \in 1..10 : DigitChars[k] = u
             THEN (CHOOSE k \in 1..10 : DigitChars[k] = u) - 1
             ELSE IF \E k \in 1..6 : UpperLetters[k] = u
                    THEN (CHOOSE k \in 1..6 : UpperLetters[k] = u) + 9
                    ELSE -1
  IN  IF v < radix THEN v ELSE -1

\* Length of the longest prefix of s made of digits of the radix.
RECURSIVE DigitPrefix(_, _)
DigitPrefix(s, radix) ==
  IF s = <<>> \/ DigitValue(s[1], radix) < 0
    THEN 0
    ELSE 1 + DigitPrefix(Tail(s), radix)

\* Value of a tuple of digits.
RECURSIVE DigitsValue(_, _)
DigitsValue(s, radix) ==
  IF s = <<>>
    THEN 0
    ELSE DigitsValue(SubSeq(s, 1, Len(s)-1), radix) * radix
         + DigitValue(s[Len(s)], radix)

\* Number of bits of a natural number.
RECURSIVE BitLength(_)
BitLength(n) == IF n = 0 THEN 0 ELSE 1 + BitLength(n \div 2)

\* A natural number rounded to a multiple of unit, ties to the even multiple.
roundToEven(v, unit) ==
  unit * ((v \div unit)
          + (IF 2 * (v % unit) > unit \/ (2 * (v % unit) = unit /\ (v \div unit) % 2 = 1)
               THEN 1 ELSE 0))

\* The Number nearest to a natural number: itself when it fits the mantissa.
toNumber(v) ==
  IF v < 2 ^ MantissaBits THEN v ELSE roundToEven(v, 2 ^ (BitLength(v) - MantissaBits))

\* parseInt(string, radix): optional sign, for radix 16 an optional 0x, then
\* the longest run of digits; whatever follows is ignored.  NaN when there is
\* no digit.  The result is a Number.
parseInt(s, radix) ==
  LET neg  == s # <<>> /\ s[1] = "-"
      s1   == IF s # <<>> /\ s[1] \in {"-", "+"} THEN Tail(s) ELSE s
      s2   == IF radix = 16 /\ (startsWith(s1, <<"0","x">>) \/ startsWith(s1, <<"0","X">>))
                THEN SubSeq(s1, 3, Len(s1))
                ELSE s1
      n    == DigitPrefix(s2, radix)
      v    == toNumber(DigitsValue(SubSeq(s2, 1, n), radix))
  IN  [nan |-> n = 0, v |-> IF n = 0 THEN 0 ELSE IF neg THEN 0 - v ELSE v]

\* Decimal digits of a natural number, as BigInt.prototype.toString() and the
\* template literal `X${i}` write them.
RECURSIVE Dec(_)
Dec(n) ==
  IF n < 10 THEN <<DigitChars[n+1]>> ELSE Dec(n \div 10) \o <<DigitChars[(n % 10) + 1]>>

(* --------------------------------------------------- exact integer bits *)

\* x & y on BigInt (two's complement of unbounded width)
RECURSIVE BitAnd(_, _)
BitAnd(x, y) ==
  IF x = 0 \/ y = 0 THEN 0
  ELSE IF x = -1 THEN y
  ELSE IF y = -1 THEN x
  ELSE (IF x % 2 = 1 /\ y % 2 = 1 THEN 1 ELSE 0) + 2 * BitAnd(x \div 2, y \div 2)

\* x | y on BigInt
RECURSIVE BitOr(_, _)
BitOr(x, y) ==
  IF x = 0 THEN y
  ELSE IF y = 0 THEN x
  ELSE IF x = -1 \/ y = -1 THEN -1
  ELSE (IF x % 2 = 1 \/ y % 2 = 1 THEN 1 ELSE 0) + 2 * BitOr(x \div 2, y \div 2)

\* x ^ y on BigInt
RECURSIVE BitXor(_, _)
BitXor(x, y) ==
  IF x = 0 THEN y
  ELSE IF y = 0 THEN x
  ELSE IF x = -1 THEN (0 - y) - 1
  ELSE IF y = -1 THEN (0 - x) - 1
  ELSE (IF (x % 2) # (y % 2) THEN 1 ELSE 0) + 2 * BitXor(x \div 2, y \div 2)

\* x << n on BigInt; a negative count shifts the other way
ShiftLeft(x, n) == IF n >= 0 THEN x * (2 ^ n) ELSE x \div (2 ^ (0 - n))

\* x >> n on BigInt (sign-propagating); a negative count shifts the other way
ShiftRight(x, n) == IF n >= 0 THEN x \div (2 ^ n) ELSE x * (2 ^ (0 - n))

(* -------------------------------------------------- messages and trace *)

\* An Error's message: the text of the instruction it is about (empty until
\* executeInstruction wraps it), what went wrong, and the name it mentions.
Message(instr, text, arg) == [instr |-> instr, text |-> text, arg |-> arg]

NoMessage == Message(<<>>, "", <<>>)

\* One entry of this.output: the fixed text, the operand names and the numbers
\* it prints, and for the error entry the message it appends.
Entry(kind, toks, nums) == [kind |-> kind, toks |-> toks, nums |-> nums, msg |-> NoMessage]

\* Outcome of a handler: it returned, or it threw with the engine as it was
\* at the throw.
Returned(e) == [e |-> e, thrown |-> FALSE, error |-> NoMessage]

Thrown(e, m) == [e |-> e, thrown |-> TRUE, error |-> m]

\* Outcome of reading an operand.
Value(v) == [ok |-> TRUE, v |-> v, error |-> NoMessage]

NoValue(m) == [ok |-> FALSE, v |-> 0, error |-> m]

\* BigInt(NaN) throws a RangeError.
BigIntOf(p) ==
  IF p.nan THEN NoValue(Message(<<>>, "RangeError: NaN cannot be converted to a BigInt", <<>>))
           ELSE Value(p.v)

(* --------------------------------------------------------- ARM64 engine *)

XZR == <<"X","Z","R">>

WZR == <<"W","Z","R">>

ARM64RegisterNames ==
  {<<"X">> \o Dec(k) : k \in 0..(NumXRegisters - 1)} \cup {<<"S","P">>, <<"L","R">>, XZR}

\* ARM64Simulator.reset()
ARM64_reset ==
  [registers |-> [r \in ARM64RegisterNames |-> IF r = <<"S","P">> THEN StackSentinel ELSE 0],
   pc |-> 0,
   flags |-> [N |-> FALSE, Z |-> FALSE, C |-> FALSE, V |-> FALSE],
   output |-> <<>>,
   modifiedRegisters |-> {}]

\* ARM64Simulator.parseImmediate(value)
ARM64_parseImmediate(value) ==
  LET v == removeFirst(value, "#")
  IN  IF startsWith(v, <<"0","x">>) \/ startsWith(v, <<"0","X">>)
        THEN BigIntOf(parseInt(v, 16))
        ELSE BigIntOf(parseInt(v, 10))

\* Mutant: a name that is no register reads as 0.
ARM64_getRegister_zeroDefault(e, reg) ==
  LET r == toUpperCase(reg)
  IN  IF r = XZR \/ r = WZR THEN Value(0)
      ELSE IF r \in DOMAIN e.registers THEN Value(e.registers[r])
      ELSE Value(0)

\* ARM64Simulator.getRegister(reg)
ARM64_getRegister(e, reg) ==
  LET r == toUpperCase(reg)
  IN  IF r = XZR \/ r = WZR THEN Value(0)
      ELSE IF r \in DOMAIN e.registers THEN Value(e.registers[r])
      ELSE NoValue(Message(<<>>, "Unbekanntes Register", r))

\* Mutant: the register is marked as modified before its name is checked.
ARM64_setRegister_markFirst(e, reg, value) ==
  LET r == toUpperCase(reg)
  IN  IF r = XZR \/ r = WZR THEN Returned(e)
      ELSE IF r \in DOMAIN e.registers
        THEN Returned([e EXCEPT !.registers[r] = value,
                                !.modifiedRegisters = @ \cup {r}])
        ELSE Thrown([e EXCEPT !.modifiedRegisters = @ \cup {r}],
                    Message(<<>>, "Unbekanntes Register", r))

\* Mutant: a write to the zero register is stored like any other write.
ARM64_setRegister_storesZero(e, reg, value) ==
  LET r == toUpperCase(reg)
  IN  IF r \in DOMAIN e.registers
        THEN Returned([e EXCEPT !.registers[r] = value,
                                !.modifiedRegisters = @ \cup {r}])
        ELSE Thrown(e, Message(<<>>, "Unbekanntes Register", r))

\* ARM64Simulator.setRegister(reg, value)
ARM64_setRegister(e, reg, value) ==
  LET r == toUpperCase(reg)
  IN  IF r = XZR \/ r = WZR THEN Returned(e)
      ELSE IF r \in DOMAIN e.registers
        THEN Returned([e EXCEPT !.registers[r] = value,
                                !.modifiedRegisters = @ \cup {r}])
        ELSE Thrown(e, Message(<<>>, "Unbekanntes Register", r))

\* Mutant: Z and N are taken from the result cut to the window, as the
\* hardware does: Z from the low bits, N from the top bit of the window.
ARM64_updateFlags_truncated(e, result, operands) ==
  LET zn == [e.flags EXCEPT !.Z = (result % (mask64 + 1) = 0),
                            !.N = ((result % (mask64 + 1)) * 2 > mask64)]
  IN  IF operands = <<>>
        THEN [e EXCEPT !.flags = zn]
        ELSE [e EXCEPT !.flags =
                [zn EXCEPT !.C = (operands[1] + operands[2]) > mask64,
                           !.V = ((operands[1] < 0) = (operands[2] < 0))
                                 /\ ((operands[1] < 0) # (result < 0))]]

\* ARM64Simulator.updateFlags(result, operand1, operand2); operands is <<>>
\* for the call with the two defaults (null, null).
ARM64_updateFlags(e, result, operands) ==
  LET zn == [e.flags EXCEPT !.Z = (result = 0), !.N = (result < 0)]
  IN  IF operands = <<>>
        THEN [e EXCEPT !.flags = zn]
        ELSE LET operand1 == operands[1]
                 operand2 == operands[2]
                 sign1 == operand1 < 0
                 sign2 == operand2 < 0
                 signR == result < 0
             IN  [e EXCEPT !.flags =
                    [zn EXCEPT !.C = (operand1 + operand2) > mask64,
                               !.V = (sign1 = sign2) /\ (sign1 # signR)]]

\* src2.startsWith('#') ? this.parseImmediate(src2) : this.getRegister(src2)
ARM64_operand(e, src) ==
  IF startsWith(src, <<"#">>) THEN ARM64_parseImmediate(src) ELSE ARM64_getRegister(e, src)

\* this.output.push(...)
push(e, entry) == [e EXCEPT !.output = Append(@, entry)]

\* Mutant: the flags are updated before the register is written, also when
\* the write throws.
ARM64_afterWrite_flagsFirst(w, entry, flagUse, result, operands) ==
  CASE flagUse = "none" -> IF w.thrown THEN w ELSE Returned(push(w.e, entry))
    [] flagUse = "result" ->
         IF w.thrown THEN Thrown(ARM64_updateFlags(w.e, result, <<>>), w.error)
         ELSE Returned(push(ARM64_updateFlags(w.e, result, <<>>), entry))
    [] flagUse = "operands" ->
         IF w.thrown THEN Thrown(ARM64_updateFlags(w.e, result, operands), w.error)
         ELSE Returned(push(ARM64_updateFlags(w.e, result, operands), entry))

\* A handler after its register write: the write threw, or the flag update
\* the handler makes (flagUse is "none", "result" or "operands") and its
\* trace entry follow.
ARM64_afterWrite(w, entry, flagUse, result, operands) ==
  IF w.thrown THEN w
  ELSE CASE flagUse = "none" -> Returned(push(w.e, entry))
         [] flagUse = "result" -> Returned(push(ARM64_updateFlags(w.e, result, <<>>), entry))
         [] flagUse = "operands" ->
              Returned(push(ARM64_updateFlags(w.e, result, operands), entry))

\* executeMOV after the source operand was read
ARM64_moveValue(e, dest, value) ==
  IF ~value.ok THEN Thrown(e, value.error)
  ELSE ARM64_afterWrite(ARM64_setRegister(e, dest, value.v),
                        Entry("MOV", <<dest>>, <<value.v>>), "none", value.v, <<>>)

\* ARM64Simulator.executeMOV(parts)
ARM64_executeMOV(e, parts) ==
  IF Len(parts) < 3 THEN Thrown(e, Message(<<>>, "MOV benoetigt Ziel und Quelle", <<>>))
  ELSE ARM64_moveValue(e, parts[2], ARM64_operand(e, parts[3]))

\* A three-operand handler after the result was computed: the register write,
\* the flag update, the trace entry.
ARM64_writeResult(e, dest, name, v1, v2, result, flagUse, operand2) ==
  ARM64_afterWrite(ARM64_setRegister(e, dest, result),
                   Entry(name, <<dest>>, <<v1, v2, result>>),
                   flagUse, result, <<v1, operand2>>)

\* A three-operand handler after its two operands were read (val1 first).
ARM64_compute(e, dest, name, val1, val2, Op(_, _), flagUse, SecondOperand(_)) ==
  IF ~val1.ok THEN Thrown(e, val1.error)
  ELSE IF ~val2.ok THEN Thrown(e, val2.error)
  ELSE ARM64_writeResult(e, dest, name, val1.v, val2.v, Op(val1.v, val2.v), flagUse,
                         SecondOperand(val2.v))

\* The common shape of executeADD, executeSUB, executeMUL, executeAND,
\* executeORR, executeEOR, executeLSL and executeLSR: arity, the two operand
\* reads, the result, the register write, the flag update the handler makes
\* (SecondOperand is what it passes as operand2) and the trace entry.
ARM64_threeOperand(e, parts, name, Op(_, _), flagUse, SecondOperand(_)) ==
  IF Len(parts) < 4
    THEN Thrown(e, Message(<<>>, "benoetigt Ziel, Operand1 und Operand2", name))
    ELSE ARM64_compute(e, parts[2], name, ARM64_getRegister(e, parts[3]),
                       ARM64_operand(e, parts[4]), Op, flagUse, SecondOperand)

\* Mutant: ADD keeps the low bits of the sum, as a 64-bit register does.
ARM64_executeADD_wrapping(e, parts) ==
  ARM64_threeOperand(e, parts, "ADD", LAMBDA x, y : (x + y) % (mask64 + 1), "none", LAMBDA y : y)

\* ARM64Simulator.executeADD(parts)
ARM64_executeADD(e, parts) ==
  ARM64_threeOperand(e, parts, "ADD", LAMBDA x, y : x + y, "none", LAMBDA y : y)

\* Mutant: SUB passes its second operand to the flag update as it is.
ARM64_executeSUB_notNegated(e, parts) ==
  ARM64_threeOperand(e, parts, "SUB", LAMBDA x, y : x - y, "operands", LAMBDA y : y)

\* ARM64Simulator.executeSUB(parts): updateFlags(result, val1, -val2)
ARM64_executeSUB(e, parts) ==
  ARM64_threeOperand(e, parts, "SUB", LAMBDA x, y : x - y, "operands", LAMBDA y : 0 - y)

\* Mutant: MUL updates Z and N from its result, as the bitwise handlers do.
ARM64_executeMUL_setsFlags(e, parts) ==
  ARM64_threeOperand(e, parts, "MUL", LAMBDA x, y : x * y, "result", LAMBDA y : y)

\* ARM64Simulator.executeMUL(parts)
ARM64_executeMUL(e, parts) ==
  ARM64_threeOperand(e, parts, "MUL", LAMBDA x, y : x * y, "none", LAMBDA y : y)

\* Mutant: AND passes its operands to updateFlags, as SUB does.
ARM64_executeAND_withOperands(e, parts) ==
  ARM64_threeOperand(e, parts, "AND", BitAnd, "operands", LAMBDA y : y)

\* ARM64Simulator.executeAND(parts): updateFlags(result)
ARM64_executeAND(e, parts) ==
  ARM64_threeOperand(e, parts, "AND", BitAnd, "result", LAMBDA y : y)

\* ARM64Simulator.executeORR(parts): updateFlags(result)
ARM64_executeORR(e, parts) ==
  ARM64_threeOperand(e, parts, "ORR", BitOr, "result", LAMBDA y : y)

\* ARM64Simulator.executeEOR(parts): updateFlags(result)
ARM64_executeEOR(e, parts) ==
  ARM64_threeOperand(e, parts, "EOR", BitXor, "result", LAMBDA y : y)

\* ARM64Simulator.executeLSL(parts)
ARM64_executeLSL(e, parts) ==
  ARM64_threeOperand(e, parts, "LSL", ShiftLeft, "none", LAMBDA y : y)

\* ARM64Simulator.executeLSR(parts)
ARM64_executeLSR(e, parts) ==
  ARM64_threeOperand(e, parts, "LSR", ShiftRight, "none", LAMBDA y : y)

\* executeCMP: the verdict its trace entry prints
comparison(result) ==
  IF result = 0 THEN "CMP: gleich (==)"
  ELSE IF result > 0 THEN "CMP: groesser (>)"
  ELSE "CMP: kleiner (<)"

\* Mutant: CMP writes the difference to its first operand, as a SUB would.
ARM64_compare_writes(e, src1, src2, val1, val2) ==
  IF ~val1.ok THEN Thrown(e, val1.error)
  ELSE IF ~val2.ok THEN Thrown(e, val2.error)
  ELSE ARM64_afterWrite(ARM64_setRegister(e, src1, val1.v - val2.v),
                        Entry(comparison(val1.v - val2.v), <<src1, src2>>, <<val1.v, val2.v>>),
                        "operands", val1.v - val2.v, <<val1.v, 0 - val2.v>>)

\* executeCMP after its two operands were read: flags and trace only
ARM64_compare(e, src1, src2, val1, val2) ==
  IF ~val1.ok THEN Thrown(e, val1.error)
  ELSE IF ~val2.ok THEN Thrown(e, val2.error)
  ELSE Returned(push(ARM64_updateFlags(e, val1.v - val2.v, <<val1.v, 0 - val2.v>>),
                     Entry(comparison(val1.v - val2.v), <<src1, src2>>, <<val1.v, val2.v>>)))

\* Mutant: CMP asks for as many tokens as the three-operand handlers.
ARM64_executeCMP_fourTokens(e, parts) ==
  IF Len(parts) < 4 THEN Thrown(e, Message(<<>>, "CMP benoetigt zwei Operanden", <<>>))
  ELSE ARM64_compare(e, parts[2], parts[3], ARM64_getRegister(e, parts[2]),
                     ARM64_operand(e, parts[3]))

\* ARM64Simulator.executeCMP(parts)
ARM64_executeCMP(e, parts) ==
  IF Len(parts) < 3 THEN Thrown(e, Message(<<>>, "CMP benoetigt zwei Operanden", <<>>))
  ELSE ARM64_compare(e, parts[2], parts[3], ARM64_getRegister(e, parts[2]),
                     ARM64_operand(e, parts[3]))

(* ----------------------------------------------------------- x86 engine *)

X86RegisterNames ==
  {<<"R","A","X">>, <<"R","B","X">>, <<"R","C","X">>, <<"R","D","X">>,
   <<"R","S","I">>, <<"R","D","I">>, <<"R","B","P">>, <<"R","S","P">>,
   <<"R","8">>, <<"R","9">>, <<"R","1","0">>, <<"R","1","1">>,
   <<"R","1","2">>, <<"R","1","3">>, <<"R","1","4">>, <<"R","1","5">>}

\* Mutant: the base pointer starts at the stack sentinel too.
X86_reset_basePointer ==
  [registers |-> [r \in X86RegisterNames |->
                    IF r \in {<<"R","S","P">>, <<"R","B","P">>} THEN StackSentinel ELSE 0],
   pc |-> 0,
   flags |-> [CF |-> FALSE, PF |-> FALSE, ZF |-> FALSE, SF |-> FALSE, OF |-> FALSE],
   output |-> <<>>,
   modifiedRegisters |-> {}]

\* X86Simulator.reset()
X86_reset ==
  [registers |-> [r \in X86RegisterNames |-> IF r = <<"R","S","P">> THEN StackSentinel ELSE 0],
   pc |-> 0,
   flags |-> [CF |-> FALSE, PF |-> FALSE, ZF |-> FALSE, SF |-> FALSE, OF |-> FALSE],
   output |-> <<>>,
   modifiedRegisters |-> {}]

\* X86Simulator.parseImmediate(value)
X86_parseImmediate(value) ==
  IF startsWith(value, <<"0","x">>) \/ startsWith(value, <<"0","X">>)
    THEN BigIntOf(parseInt(value, 16))
    ELSE BigIntOf(parseInt(value, 10))

\* X86Simulator.getRegister(reg)
X86_getRegister(e, reg) ==
  LET r == toUpperCase(reg)
  IN  IF r \in DOMAIN e.registers THEN Value(e.registers[r])
      ELSE NoValue(Message(<<>>, "Unbekanntes Register", r))

\* X86Simulator.setRegister(reg, value)
X86_setRegister(e, reg, value) ==
  LET r == toUpperCase(reg)
  IN  IF r \in DOMAIN e.registers
        THEN Returned([e EXCEPT !.registers[r] = value,
                                !.modifiedRegisters = @ \cup {r}])
        ELSE Thrown(e, Message(<<>>, "Unbekanntes Register", r))

\* Number of 1 bits among the low n bits of a natural number:
\* for (i < 8) if (lower8 & (1 << i)) ones++
RECURSIVE CountOnes(_, _)
CountOnes(x, n) == IF n = 0 THEN 0 ELSE (x % 2) + CountOnes(x \div 2, n - 1)

\* Mutant: the parity is counted on the low 8 bits of the magnitude of the
\* result, not of its two's complement.
X86_updateFlags_magnitude(e, result, operands) ==
  LET lower8 == BitAnd(IF result < 0 THEN 0 - result ELSE result, (2 ^ ParityBits) - 1)
      ones   == CountOnes(lower8, ParityBits)
      zsp    == [e.flags EXCEPT !.ZF = (result = 0), !.SF = (result < 0),
                                !.PF = (ones % 2) = 0]
  IN  IF operands = <<>>
        THEN [e EXCEPT !.flags = zsp]
        ELSE [e EXCEPT !.flags =
                [zsp EXCEPT !.CF = (operands[1] + operands[2]) > mask64,
                            !.OF = ((operands[1] < 0) = (operands[2] < 0))
                                   /\ ((operands[1] < 0) # (result < 0))]]

\* X86Simulator.updateFlags(result, operand1, operand2); operands is <<>> for
\* the call with the two defaults (null, null).
X86_updateFlags(e, result, operands) ==
  LET lower8 == BitAnd(result, (2 ^ ParityBits) - 1)
      ones   == CountOnes(lower8, ParityBits)
      zsp    == [e.flags EXCEPT !.ZF = (result = 0), !.SF = (result < 0),
                                !.PF = (ones % 2) = 0]
  IN  IF operands = <<>>
        THEN [e EXCEPT !.flags = zsp]
        ELSE LET operand1 == operands[1]
                 operand2 == operands[2]
                 sign1 == operand1 < 0
                 sign2 == operand2 < 0
                 signR == result < 0
             IN  [e EXCEPT !.flags =
                    [zsp EXCEPT !.CF = (operand1 + operand2) > mask64,
                                !.OF = (sign1 = sign2) /\ (sign1 # signR)]]

\* try { v = this.getRegister(src) } catch { v = this.parseImmediate(src) }
X86_operand(e, src) ==
  IF X86_getRegister(e, src).ok THEN X86_getRegister(e, src) ELSE X86_parseImmediate(src)

\* A handler after its register write: the write threw, or the flag update
\* the handler makes (flagUse is "none", "result" or "operands") and its
\* trace entry follow.
X86_afterWrite(w, entry, flagUse, result, operands) ==
  IF w.thrown THEN w
  ELSE CASE flagUse = "none" -> Returned(push(w.e, entry))
         [] flagUse = "result" -> Returned(push(X86_updateFlags(w.e, result, <<>>), entry))
         [] flagUse = "operands" ->
              Returned(push(X86_updateFlags(w.e, result, operands), entry))

\* executeMOV after the source operand was read
X86_moveValue(e, dest, value) ==
  IF ~value.ok THEN Thrown(e, value.error)
  ELSE X86_afterWrite(X86_setRegister(e, dest, value.v),
                      Entry("MOV", <<dest>>, <<value.v>>), "none", value.v, <<>>)

\* X86Simulator.executeMOV(parts)
X86_executeMOV(e, parts) ==
  IF Len(parts) < 3 THEN Thrown(e, Message(<<>>, "MOV benoetigt Ziel und Quelle", <<>>))
  ELSE X86_moveValue(e, parts[2], X86_operand(e, parts[3]))

\* A two-operand handler after the result was computed: the register write,
\* the flag update, the trace entry.
X86_writeResult(e, dest, name, v1, v2, result, flagUse, operand2) ==
  X86_afterWrite(X86_setRegister(e, dest, result),
                 Entry(name, <<dest>>, <<v1, v2, result>>),
                 flagUse, result, <<v1, operand2>>)

\* A two-operand handler after its two operands were read (val1 first).
X86_compute(e, dest, name, val1, val2, Op(_, _), flagUse, SecondOperand(_)) ==
  IF ~val1.ok THEN Thrown(e, val1.error)
  ELSE IF ~val2.ok THEN Thrown(e, val2.error)
  ELSE X86_writeResult(e, dest, name, val1.v, val2.v, Op(val1.v, val2.v), flagUse,
                       SecondOperand(val2.v))

\* The common shape of executeADD, executeSUB, executeMUL, executeAND,
\* executeOR, executeXOR, executeSHL and executeSHR: the destination is the
\* first source, the source is the last of up to three operands
\* (parts.length > 3 ? parts[3] : parts[2]).
X86_twoOperand(e, parts, name, Op(_, _), flagUse, SecondOperand(_)) ==
  IF Len(parts) < 3
    THEN Thrown(e, Message(<<>>, "benoetigt mindestens Ziel und Quelle", name))
    ELSE X86_compute(e, parts[2], name, X86_getRegister(e, parts[2]),
                     X86_operand(e, IF Len(parts) > 3 THEN parts[4] ELSE parts[3]),
                     Op, flagUse, SecondOperand)

\* Mutant: ADD takes its source from the operand after the destination,
\* however many operands there are.
X86_executeADD_middleSource(e, parts) ==
  X86_twoOperand(e, IF Len(parts) > 3 THEN SubSeq(parts, 1, 3) ELSE parts, "ADD",
                 LAMBDA x, y : x + y, "operands", LAMBDA y : y)

\* X86Simulator.executeADD(parts): updateFlags(result, val1, val2)
X86_executeADD(e, parts) ==
  X86_twoOperand(e, parts, "ADD", LAMBDA x, y : x + y, "operands", LAMBDA y : y)

\* Mutant: SUB passes its source to the flag update as it is, not negated.
X86_executeSUB_notNegated(e, parts) ==
  X86_twoOperand(e, parts, "SUB", LAMBDA x, y : x - y, "operands", LAMBDA y : y)

\* Mutant: SUB takes its operands in the other order, source first.
X86_executeSUB_reversed(e, parts) ==
  X86_twoOperand(e, parts, "SUB", LAMBDA x, y : y - x, "operands", LAMBDA y : 0 - y)

\* X86Simulator.executeSUB(parts): updateFlags(result, val1, -val2)
X86_executeSUB(e, parts) ==
  X86_twoOperand(e, parts, "SUB", LAMBDA x, y : x - y, "operands", LAMBDA y : 0 - y)

\* X86Simulator.executeMUL(parts)
X86_executeMUL(e, parts) ==
  X86_twoOperand(e, parts, "MUL", LAMBDA x, y : x * y, "none", LAMBDA y : y)

\* X86Simulator.executeAND(parts): updateFlags(result)
X86_executeAND(e, parts) ==
  X86_twoOperand(e, parts, "AND", BitAnd, "result", LAMBDA y : y)

\* X86Simulator.executeOR(parts): updateFlags(result)
X86_executeOR(e, parts) ==
  X86_twoOperand(e, parts, "OR", BitOr, "result", LAMBDA y : y)

\* X86Simulator.executeXOR(parts): updateFlags(result)
X86_executeXOR(e, parts) ==
  X86_twoOperand(e, parts, "XOR", BitXor, "result", LAMBDA y : y)

\* X86Simulator.executeSHL(parts)
X86_executeSHL(e, parts) ==
  X86_twoOperand(e, parts, "SHL", ShiftLeft, "none", LAMBDA y : y)

\* X86Simulator.executeSHR(parts)
X86_executeSHR(e, parts) ==
  X86_twoOperand(e, parts, "SHR", ShiftRight, "none", LAMBDA y : y)

\* executeCMP after its two operands were read: flags and trace only
X86_compare(e, src1, src2, val1, val2) ==
  IF ~val1.ok THEN Thrown(e, val1.error)
  ELSE IF ~val2.ok THEN Thrown(e, val2.error)
  ELSE Returned(push(X86_updateFlags(e, val1.v - val2.v, <<val1.v, 0 - val2.v>>),
                     Entry(comparison(val1.v - val2.v), <<src1, src2>>, <<val1.v, val2.v>>)))

\* X86Simulator.executeCMP(parts)
X86_executeCMP(e, parts) ==
  IF Len(parts) < 3 THEN Thrown(e, Message(<<>>, "CMP benoetigt zwei Operanden", <<>>))
  ELSE X86_compare(e, parts[2], parts[3], X86_getRegister(e, parts[2]),
                   X86_operand(e, parts[3]))

\* executeINC / executeDEC after the register was read: updateFlags(result)
X86_step(e, dest, name, val, delta) ==
  IF ~val.ok THEN Thrown(e, val.error)
  ELSE X86_afterWrite(X86_setRegister(e, dest, val.v + delta),
                      Entry(name, <<dest>>, <<val.v, val.v + delta>>),
                      "result", val.v + delta, <<>>)

\* The common shape of executeINC and executeDEC.
X86_oneOperand(e, parts, name, delta) ==
  IF Len(parts) < 2 THEN Thrown(e, Message(<<>>, "benoetigt ein Register", name))
  ELSE X86_step(e, parts[2], name, X86_getRegister(e, parts[2]), delta)

\* X86Simulator.executeINC(parts)
X86_executeINC(e, parts) == X86_oneOperand(e, parts, "INC", 1)

\* X86Simulator.executeDEC(parts)
X86_executeDEC(e, parts) == X86_oneOperand(e, parts, "DEC", -1)

(* ---------------------------------------------------------- line parser *)

\* Mutant: ';' does not start a comment.
CommentMarkers_slashesOnly == {<<"/","/">>}

\* The two comment markers, recognised by both engines.
CommentMarkers == {<<"/","/">>, <<";">>}

\* instruction.split('//')[0].split(';')[0]  (x86: the two splits in the
\* other order): the lexemes before the first comment marker.
RECURSIVE stripComment(_)
stripComment(line) ==
  IF line = <<>> \/ line[1] \in CommentMarkers
    THEN <<>>
    ELSE <<line[1]>> \o stripComment(Tail(line))

\* Outcome of executeInstruction: as a handler's, and whether it returned 'halt'.
Outcome(r, halt) == [e |-> r.e, thrown |-> r.thrown, error |-> r.error, halt |-> halt]

\* catch (error) { throw new Error(`Fehler bei '${instruction}': ${error.message}`) }
wrapError(r, instruction) ==
  IF r.thrown
    THEN Outcome(Thrown(r.e, Message(instruction, r.error.text, r.error.arg)), FALSE)
    ELSE Outcome(r, FALSE)

\* ARM64Simulator.executeInstruction(instruction)
ARM64_executeInstruction(e, line) ==
  IF line = <<>> \/ line[1] \in CommentMarkers THEN Outcome(Returned(e), FALSE)
  ELSE LET instruction == stripComment(line)
           parts == instruction
       IN  IF Len(parts) = 0 THEN Outcome(Returned(e), FALSE)
           ELSE LET op == toUpperCase(parts[1])
                IN  CASE op \in {<<"M","O","V">>, <<"M","O","V","Z">>} ->
                           wrapError(ARM64_executeMOV(e, parts), instruction)
                      [] op = <<"A","D","D">> -> wrapError(ARM64_executeADD(e, parts), instruction)
                      [] op = <<"S","U","B">> -> wrapError(ARM64_executeSUB(e, parts), instruction)
                      [] op = <<"M","U","L">> -> wrapError(ARM64_executeMUL(e, parts), instruction)
                      [] op = <<"A","N","D">> -> wrapError(ARM64_executeAND(e, parts), instruction)
                      [] op = <<"O","R","R">> -> wrapError(ARM64_executeORR(e, parts), instruction)
                      [] op = <<"E","O","R">> -> wrapError(ARM64_executeEOR(e, parts), instruction)
                      [] op = <<"L","S","L">> -> wrapError(ARM64_executeLSL(e, parts), instruction)
                      [] op = <<"L","S","R">> -> wrapError(ARM64_executeLSR(e, parts), instruction)
                      [] op = <<"C","M","P">> -> wrapError(ARM64_executeCMP(e, parts), instruction)
                      [] op = <<"N","O","P">> -> Outcome(Returned(e), FALSE)
                      [] op = <<"R","E","T">> ->
                           Outcome(Returned(push(e, Entry("Programm beendet (RET)", <<>>, <<>>))), TRUE)
                      [] OTHER ->
                           wrapError(Thrown(e, Message(<<>>, "Unbekannte Instruktion", op)), instruction)

\* X86Simulator.executeInstruction(instruction)
X86_executeInstruction(e, line) ==
  IF line = <<>> \/ line[1] \in CommentMarkers THEN Outcome(Returned(e), FALSE)
  ELSE LET instruction == stripComment(line)
           parts == instruction
       IN  IF Len(parts) = 0 THEN Outcome(Returned(e), FALSE)
           ELSE LET op == toUpperCase(parts[1])
                IN  CASE op = <<"M","O","V">> -> wrapError(X86_executeMOV(e, parts), instruction)
                      [] op = <<"A","D","D">> -> wrapError(X86_executeADD(e, parts), instruction)
                      [] op = <<"S","U","B">> -> wrapError(X86_executeSUB(e, parts), instruction)
                      [] op \in {<<"I","M","U","L">>, <<"M","U","L">>} ->
                           wrapError(X86_executeMUL(e, parts), instruction)
                      [] op = <<"A","N","D">> -> wrapError(X86_executeAND(e, parts), instruction)
                      [] op = <<"O","R">> -> wrapError(X86_executeOR(e, parts), instruction)
                      [] op = <<"X","O","R">> -> wrapError(X86_executeXOR(e, parts), instruction)
                      [] op = <<"S","H","L">> -> wrapError(X86_executeSHL(e, parts), instruction)
                      [] op = <<"S","H","R">> -> wrapError(X86_executeSHR(e, parts), instruction)
                      [] op = <<"C","M","P">> -> wrapError(X86_executeCMP(e, parts), instruction)
                      [] op = <<"I","N","C">> -> wrapError(X86_executeINC(e, parts), instruction)
                      [] op = <<"D","E","C">> -> wrapError(X86_executeDEC(e, parts), instruction)
                      [] op = <<"N","O","P">> -> Outcome(Returned(e), FALSE)
                      [] op = <<"R","E","T">> ->
                           Outcome(Returned(push(e, Entry("Programm beendet (RET)", <<>>, <<>>))), TRUE)
                      [] OTHER ->
                           wrapError(Thrown(e, Message(<<>>, "Unbekannte Instruktion", op)), instruction)

\* The opcodes of the switch of executeInstruction.
Opcodes(a) ==
  IF a = "arm64"
    THEN {<<"M","O","V">>, <<"M","O","V","Z">>, <<"A","D","D">>, <<"S","U","B">>,
          <<"M","U","L">>, <<"A","N","D">>, <<"O","R","R">>, <<"E","O","R">>,
          <<"L","S","L">>, <<"L","S","R">>, <<"C","M","P">>, <<"N","O","P">>,
          <<"R","E","T">>}
    ELSE {<<"M","O","V">>, <<"A","D","D">>, <<"S","U","B">>, <<"I","M","U","L">>,
          <<"M","U","L">>, <<"A","N","D">>, <<"O","R">>, <<"X","O","R">>,
          <<"S","H","L">>, <<"S","H","R">>, <<"C","M","P">>, <<"I","N","C">>,
          <<"D","E","C">>, <<"N","O","P">>, <<"R","E","T">>}

\* value.toString(16) of a BigInt that is not negative
RECURSIVE toString16(_)
toString16(n) ==
  IF n < 16 THEN <<(DigitChars \o SubSeq(LowerLetters, 1, 6))[n + 1]>>
  ELSE toString16(n \div 16) \o <<(DigitChars \o SubSeq(LowerLetters, 1, 6))[(n % 16) + 1]>>

\* value.toString(radix) of a BigInt: a negative value has a minus sign
toString(value, radix) ==
  IF radix = 16
    THEN IF value < 0 THEN <<"-">> \o toString16(0 - value) ELSE toString16(value)
    ELSE IF value < 0 THEN <<"-">> \o Dec(0 - value) ELSE Dec(value)

\* s.padStart(n, c)
RECURSIVE padStart(_, _, _)
padStart(s, n, c) == IF Len(s) >= n THEN s ELSE padStart(<<c>> \o s, n, c)

\* getRegisterState(): the entry of one register
registerState(e, reg) ==
  [value |-> toString(e.registers[reg], 10),
   hex |-> <<"0","x">> \o toUpperCase(padStart(toString(e.registers[reg], 16), 16, "0")),
   modified |-> reg \in e.modifiedRegisters]

\* ARM64Simulator.getRegisterState()
ARM64_getRegisterState(e) == [reg \in DOMAIN e.registers \ {XZR} |-> registerState(e, reg)]

\* X86Simulator.getRegisterState()
X86_getRegisterState(e) == [reg \in DOMAIN e.registers |-> registerState(e, reg)]

(* ------------------------------------------------------- program runner *)

Architectures == {"arm64", "x86"}

\* new ARM64Simulator() / new X86Simulator(): the constructor calls reset()
reset(a) == IF a = "arm64" THEN ARM64_reset ELSE X86_reset

executeInstruction(a, e, line) ==
  IF a = "arm64" THEN ARM64_executeInstruction(e, line) ELSE X86_executeInstruction(e, line)

getRegisterState(a, e) ==
  IF a = "arm64" THEN ARM64_getRegisterState(e) ELSE X86_getRegisterState(e)

\* What execute() has returned: nothing yet, or { success, output, error }.
NoResult ==
  [returned |-> FALSE, success |-> FALSE, output |-> <<>>, hasError |-> FALSE,
   error |-> NoMessage]

Result(success, output, hasError, error) ==
  [returned |-> TRUE, success |-> success, output |-> output, hasError |-> hasError,
   error |-> error]

\* Position of execute(): the engine, whether the call has returned, and what.
Position(e, done, result) == [e |-> e, done |-> done, result |-> result]

\* Mutant: execute() clears the trace but does not call reset().
executeBegin_noReset(a, e) ==
  push([e EXCEPT !.output = <<>>, !.pc = 0], Entry("=== Programm Start ===", <<>>, <<>>))

\* execute(): this.reset(); ...; this.output.push('=== Programm Start ===\n')
executeBegin(a, e) == push(reset(a), Entry("=== Programm Start ===", <<>>, <<>>))

\* execute(): the loop has ended or was left by break
executeEnd(e) ==
  LET f == push(e, Entry("=== Programm erfolgreich beendet ===", <<>>, <<>>))
  IN  Position(f, TRUE, Result(TRUE, f.output, FALSE, NoMessage))

\* Mutant: the error entry carries the 0-based index of the line.
executeCatch_zeroBased(e, error) ==
  Position(push(e, [kind |-> "FEHLER in Zeile", toks |-> <<>>, nums |-> <<e.pc>>,
                    msg |-> error]),
           TRUE,
           Result(FALSE,
                  Append(e.output, [kind |-> "FEHLER in Zeile", toks |-> <<>>,
                                    nums |-> <<e.pc>>, msg |-> error]),
                  TRUE, error))

\* Mutant: execute() has no catch block; the error leaves the call, which
\* returns nothing.
executeCatch_rethrow(e, error) == Position(e, TRUE, NoResult)

\* Mutant: the closing entry is pushed on the way out of a failed call too,
\* as from a finally block.
executeCatch_finally(e, error) ==
  Position(push(push(e, [kind |-> "FEHLER in Zeile", toks |-> <<>>, nums |-> <<e.pc + 1>>,
                         msg |-> error]),
                Entry("=== Programm erfolgreich beendet ===", <<>>, <<>>)),
           TRUE,
           Result(FALSE,
                  Append(Append(e.output, [kind |-> "FEHLER in Zeile", toks |-> <<>>,
                                           nums |-> <<e.pc + 1>>, msg |-> error]),
                         Entry("=== Programm erfolgreich beendet ===", <<>>, <<>>)),
                  TRUE, error))

\* execute(): the catch block
executeCatch(e, error) ==
  LET f == push(e, [kind |-> "FEHLER in Zeile", toks |-> <<>>, nums |-> <<e.pc + 1>>,
                    msg |-> error])
  IN  Position(f, TRUE, Result(FALSE, f.output, TRUE, error))

\* Mutant: the loop does not look at the value executeInstruction returns.
afterInstruction_ignoreHalt(r) ==
  IF r.thrown THEN executeCatch(r.e, r.error)
  ELSE Position(r.e, FALSE, NoResult)

\* execute(): what follows executeInstruction in one iteration of the loop
afterInstruction(r) ==
  IF r.thrown THEN executeCatch(r.e, r.error)
  ELSE IF r.halt THEN executeEnd(r.e)
  ELSE Position(r.e, FALSE, NoResult)

\* Mutant: the line index counts the instructions executed so far (the trace
\* entries after the start entry), not the lines of the source.
executeLine_countInstructions(a, e, k, line) ==
  afterInstruction(executeInstruction(a, [e EXCEPT !.pc = Len(e.output) - 1], line))

\* execute(): this.pc = i; const result = this.executeInstruction(lines[i])
executeLine(a, e, k, line) == afterInstruction(executeInstruction(a, [e EXCEPT !.pc = k], line))

\* execute(): the loop from index k on, then the end of the call
RECURSIVE runFrom(_, _, _, _)
runFrom(a, p, code, k) ==
  IF p.done THEN p
  ELSE IF k = Len(code) THEN executeEnd(p.e)
  ELSE runFrom(a, executeLine(a, p.e, k, code[k + 1]), code, k + 1)

\* execute(code), the whole call on the engine e, for the lines of code
execute(a, e, code) == runFrom(a, Position(executeBegin(a, e), FALSE, NoResult), code, 0)

(* ---------------------------------------------------------- source text *)

\* The smallest value above the carry window.
Over == mask64 + 1

\* The smallest natural number that is no Number: it needs one bit more than
\* the mantissa has (2^53 + 1 in the code).
Inexact == (2 ^ MantissaBits) + 1

\* An immediate literal of the ARM64-like syntax: #42, #-16
Imm(n) == <<"#">> \o (IF n < 0 THEN <<"-">> \o Dec(0 - n) ELSE Dec(n))

\* A literal of the x86-like syntax: 42, -16
Lit(n) == IF n < 0 THEN <<"-">> \o Dec(0 - n) ELSE Dec(n)

\* Lines a source text for the ARM64-like engine is made of.
ARM64SourceLines ==
  LET X0 == <<"X","0">>
      X1 == <<"X","1">>
      MOV == <<"M","O","V">>
      CMP == <<"C","M","P">>
  IN  {<<>>,
       << <<"/","/">>, <<"R","E","T">> >>,
       << <<";">>, MOV, X0, Imm(1) >>,
       << <<"N","O","P">> >>,
       << <<"R","E","T">> >>,
       << <<"r","e","t">>, <<"/","/">>, <<"F","O","O">> >>,
       << <<"F","O","O">>, X0, X0 >>,
       << <<"B">>, <<";">>, <<"R","E","T">> >>}
      \cup {<<MOV, d, Imm(n)>> : d \in {X0, X1}, n \in {1, Over, -1}}
      \cup {<< MOV, X0, Imm(Inexact) >>,
            << MOV, X1, X0 >>,
            << <<"m","o","v">>, <<"x","0">>, <<"#","0","x","2","A">> >>,
            << <<"M","O","V","Z">>, X1, Imm(42), <<"/","/">>, <<"F","O","O">> >>,
            << MOV, XZR, Imm(1) >>,
            << MOV, X0 >>,
            << MOV, <<"X","3","1">>, Imm(1) >>,
            << MOV, X0, <<"#","z">> >>,
            << MOV, X0, <<"#","1","z">> >>,
            << MOV, X0, <<"Q","1">> >>,
            << MOV, <<"X","3","1">>, <<"#","z">> >>}
      \cup {<< <<"A","D","D">>, X0, X0, X1 >>,
            << <<"A","D","D">>, <<"X","2">>, X0, X1 >>,
            << <<"S","U","B">>, <<"X","3">>, X0, X1 >>,
            << <<"A","D","D">>, X1, X0, Imm(Over) >>,
            << <<"S","U","B">>, X0, X0, X1 >>,
            << <<"S","U","B">>, X1, X1, Imm(1) >>,
            << <<"S","U","B">>, XZR, X0, Imm(1) >>,
            << <<"S","U","B">>, X0, X1 >>,
            << <<"M","U","L">>, X0, X1, X1 >>,
            << <<"A","N","D">>, X0, X0, X1 >>,
            << <<"A","N","D">>, X1, X0, Imm(1) >>,
            << <<"A","N","D">>, WZR, X0, X1 >>,
            << <<"A","N","D">>, <<"X","3","1">>, X0, X1 >>,
            << <<"O","R","R">>, X1, X0, Imm(1) >>,
            << <<"E","O","R">>, X0, X0, X1 >>,
            << <<"L","S","L">>, X0, X0, Imm(1) >>,
            << <<"L","S","R">>, X1, X0, Imm(1) >>,
            << <<"L","S","L">>, X0, X0, <<"#","z">> >>,
            << CMP, X0, X1 >>,
            << CMP, X0, Imm(1) >>,
            << CMP, XZR, Imm(0 - Over) >>,
            << CMP, X0, <<"X","3","1">> >>,
            << CMP, X0 >>}

\* Lines a source text for the x86-like engine is made of.
X86SourceLines ==
  LET RAX == <<"R","A","X">>
      RBX == <<"R","B","X">>
      MOV == <<"M","O","V">>
      CMP == <<"C","M","P">>
  IN  {<<>>,
       << <<";">>, <<"R","E","T">> >>,
       << <<"/","/">>, MOV, RAX, Lit(1) >>,
       << <<"N","O","P">> >>,
       << <<"R","E","T">> >>,
       << <<"r","e","t">>, <<";">>, <<"F","O","O">> >>,
       << <<"F","O","O">>, RAX, RAX >>,
       << <<"B">>, <<"/","/">>, <<"R","E","T">> >>}
      \cup {<<MOV, d, Lit(n)>> : d \in {RAX, RBX}, n \in {1, Over, -1}}
      \cup {<< MOV, RBX, RAX >>,
            << <<"m","o","v">>, <<"r","a","x">>, <<"0","x","F","F">> >>,
            << MOV, RBX, <<"0","x","0","F">>, <<";">>, <<"F","O","O">> >>,
            << MOV, RAX >>,
            << MOV, RAX, <<"1","z">> >>,
            << MOV, <<"R","Z","Z">>, Lit(1) >>,
            << MOV, RAX, <<"R","Z","Z">> >>,
            << MOV, <<"R","Z","Z">>, <<"R","Z","Z">> >>}
      \cup {<< <<"A","D","D">>, RAX, RBX >>,
            << <<"A","D","D">>, RBX, Lit(Over) >>,
            << <<"S","U","B">>, RAX, RBX >>,
            << <<"S","U","B">>, RBX, Lit(1) >>,
            << <<"S","U","B">>, RAX >>,
            << <<"M","U","L">>, RAX, RBX >>,
            << <<"I","M","U","L">>, RBX, Lit(3) >>,
            << <<"A","N","D">>, RAX, RBX >>,
            << <<"A","N","D">>, RBX, Lit(1) >>,
            << <<"A","N","D">>, <<"R","Z","Z">>, RBX >>,
            << <<"O","R">>, RBX, Lit(1) >>,
            << <<"X","O","R">>, RAX, RBX >>,
            << <<"S","H","L">>, RAX, Lit(1) >>,
            << <<"S","H","R">>, RBX, Lit(1) >>,
            << <<"S","H","L">>, RAX, <<"z","z">> >>,
            << CMP, RAX, RBX >>,
            << CMP, RAX, Lit(1) >>,
            << CMP, RBX, Lit(0 - Over) >>,
            << CMP, <<"R","Z","Z">>, RAX >>,
            << <<"I","N","C">>, RAX >>,
            << <<"D","E","C">>, RAX >>,
            << <<"D","E","C">>, RBX >>,
            << <<"I","N","C">> >>,
            << CMP, RAX >>,
            << <<"A","D","D">>, RAX, <<"R","Z","Z">>, RBX >>,
            << <<"S","U","B">>, RAX, RBX, Lit(1) >>,
            << <<"S","H","L">>, RBX, <<"z","z">>, Lit(1) >>}

SourceLines(a) == IF a = "arm64" THEN ARM64SourceLines ELSE X86SourceLines

(* ---------------------------------------------------------------- state *)

VARIABLES
  arch,               \* which of the two engines this is
  registers,          \* this.registers
  flags,              \* this.flags
  modifiedRegisters,  \* this.modifiedRegisters
  output,             \* this.output
  pc,                 \* this.pc (ARM64Simulator), this.rip (X86Simulator)
  active,             \* an execute() call has started and not yet returned
  lines,              \* code.split('\n'), as far as the call has read it
  nlines,             \* lines.length
  i,                  \* the loop variable of execute()
  result,             \* what the last execute() call returned
  before,             \* history: the engine before the last loop iteration
  stale,              \* history: the engine was not as constructed when
                      \* execute() was last called
  currentSimulator,   \* app.js: which engine currentSimulator is
  codeEditor,         \* app.js: codeEditor.value
  runBtnDisabled,     \* app.js: runBtn.disabled
  timers,             \* callbacks given to setTimeout that have not run yet
  task,               \* the timer callback the event loop is running
  executing,          \* per engine, the execute() calls started and not returned
  ran,                \* per engine, the text it executed since its last reset()
  snapshotRead,       \* history: the last read of a register or flag snapshot
  loaded              \* the load event of the window was handled

engineVars ==
  <<arch, registers, flags, modifiedRegisters, output, pc, active, lines, nlines, i,
    result, before, stale>>

uiVars ==
  <<currentSimulator, codeEditor, runBtnDisabled, timers, task, executing, ran,
    snapshotRead, loaded>>

vars == <<engineVars, uiVars>>

\* No timer callback is running.
NoTask == [at |-> 0, code |-> "", requestedOn |-> "arm64", engine |-> "arm64"]

\* app.js as the script has run: the two engines, currentSimulator the
\* ARM64-like one, nothing in the editor, no event handled yet
UIAtStart ==
  /\ currentSimulator = "arm64"
  /\ codeEditor = ""
  /\ runBtnDisabled = FALSE
  /\ timers = <<>>
  /\ task = NoTask
  /\ executing = [a \in {"arm64", "x86"} |-> 0]
  /\ ran = [a \in {"arm64", "x86"} |-> ""]
  /\ snapshotRead = [engine |-> "arm64", executing |-> FALSE]
  /\ loaded = FALSE

\* The engine object.
engine ==
  [registers |-> registers, pc |-> pc, flags |-> flags, output |-> output,
   modifiedRegisters |-> modifiedRegisters]

\* Assignment of the engine object's fields.
SetEngine(e) ==
  /\ registers' = e.registers
  /\ pc' = e.pc
  /\ flags' = e.flags
  /\ output' = e.output
  /\ modifiedRegisters' = e.modifiedRegisters

\* new ARM64Simulator() / new X86Simulator()
Init ==
  /\ arch \in Architectures
  /\ registers = reset(arch).registers
  /\ pc = reset(arch).pc
  /\ flags = reset(arch).flags
  /\ output = reset(arch).output
  /\ modifiedRegisters = reset(arch).modifiedRegisters
  /\ active = FALSE
  /\ lines = <<>>
  /\ nlines = 0
  /\ i = 0
  /\ result = NoResult
  /\ before = reset(arch)
  /\ stale = FALSE
  /\ UIAtStart

\* reset(), called on an engine that is not executing
Reset ==
  /\ ~active
  /\ SetEngine(reset(arch))
  /\ UNCHANGED <<arch, active, lines, nlines, i, result, before, stale>>
  /\ UNCHANGED uiVars

\* execute(code) is called: reset, split, the start entry.  The text of a
\* line is fixed when the loop reads it; a line the loop never reads has no
\* influence on the call.
Execute ==
  /\ ~active
  /\ \E n \in 1..MaxLines : nlines' = n
  /\ SetEngine(executeBegin(arch, engine))
  /\ before' = executeBegin(arch, engine)
  /\ active' = TRUE
  /\ lines' = <<>>
  /\ i' = 0
  /\ result' = NoResult
  /\ stale' = (engine # reset(arch))
  /\ UNCHANGED arch
  /\ UNCHANGED uiVars

\* Assignment of what an iteration of the loop leaves.
SetPosition(p) ==
  /\ SetEngine(p.e)
  /\ active' = ~p.done
  /\ result' = p.result
  /\ i' = IF p.done THEN i ELSE i + 1

\* execute(): one iteration of the loop; a throw or a 'halt' ends the call
ExecuteLine ==
  /\ active
  /\ i < nlines
  /\ \E line \in SourceLines(arch) :
       /\ lines' = Append(lines, line)
       /\ SetPosition(executeLine(arch, engine, i, line))
  /\ before' = engine
  /\ UNCHANGED <<arch, nlines, stale>>
  /\ UNCHANGED uiVars

\* execute(): the loop has run through all lines
ExecuteEnd ==
  /\ active
  /\ i = nlines
  /\ SetEngine(executeEnd(engine).e)
  /\ result' = executeEnd(engine).result
  /\ active' = FALSE
  /\ UNCHANGED <<arch, lines, nlines, i, before, stale>>
  /\ UNCHANGED uiVars

Next == Reset \/ Execute \/ ExecuteLine \/ ExecuteEnd

Spec == Init /\ [][Next]_vars

\* execute() is one synchronous call: once started, its loop runs on until
\* the call returns.
SpecLive == Spec /\ WF_vars(ExecuteLine \/ ExecuteEnd)

\* Two first lines of a source text that load the first two registers.
Preludes(a) ==
  IF a = "arm64"
    THEN {<< << <<"M","O","V">>, <<"X","0">>, Imm(n[1]) >>,
             << <<"M","O","V">>, <<"X","1">>, Imm(n[2]) >> >> : n \in {<<Over, 1>>, <<0 - 1, 1>>}}
    ELSE {<< << <<"m","o","v">>, <<"r","a","x">>, <<"0","x","F","F">> >>,
             << <<"M","O","V">>, <<"R","B","X">>, <<"0","x","0","F">>, <<";">>, <<"F","O","O">> >> >>,
          << << <<"M","O","V">>, <<"R","A","X">>, Lit(0 - 1) >>,
             << <<"M","O","V">>, <<"R","B","X">>, Lit(1) >> >>}

\* execute(): the engine after the loop has read the lines k+1..Len(code)
\* of code, none of which throws or halts
RECURSIVE readLines(_, _, _, _)
readLines(a, e, code, k) ==
  IF k = Len(code) THEN e
  ELSE readLines(a, executeLine(a, e, k, code[k + 1]).e, code, k + 1)

\* An execute() call on a new engine that has read the first two lines of
\* its source text, which load the first two registers.
InitPrelude ==
  /\ arch \in Architectures
  /\ lines \in Preludes(arch)
  /\ nlines \in {Len(lines) + n : n \in 1..MaxLines}
  /\ i = Len(lines)
  /\ active = TRUE
  /\ result = NoResult
  /\ stale = FALSE
  /\ before = readLines(arch, executeBegin(arch, reset(arch)), SubSeq(lines, 1, Len(lines) - 1), 0)
  /\ registers = readLines(arch, executeBegin(arch, reset(arch)), lines, 0).registers
  /\ pc = readLines(arch, executeBegin(arch, reset(arch)), lines, 0).pc
  /\ flags = readLines(arch, executeBegin(arch, reset(arch)), lines, 0).flags
  /\ output = readLines(arch, executeBegin(arch, reset(arch)), lines, 0).output
  /\ modifiedRegisters = readLines(arch, executeBegin(arch, reset(arch)), lines, 0).modifiedRegisters
  /\ UIAtStart

\* The rest of the execute() call.
NextPrelude == ExecuteLine \/ ExecuteEnd

SpecPrelude == InitPrelude /\ [][NextPrelude]_vars

(* ------------------------------------------------------- user interface *)

\* app.js: currentArch === 'arm64' ? arm64Examples.basic : x86Examples.basic
basicExample(a) == IF a = "arm64" THEN "arm64Examples.basic" ELSE "x86Examples.basic"

\* A read of currentSimulator.getRegisterState() or getFlagsState() on the
\* engine a, and whether an execute() call on a was running at the read.
ReadOf(a) == [engine |-> a, executing |-> executing[a] > 0]

\* The event loop runs one handler at a time, each to its end: an event is
\* dispatched when no callback is running.
Idle == task.at = 0

\* Mutant: the displays are updated right after execute() has been called,
\* as they would be if the call were started and not waited for.
callbackBody_notAwaited ==
  <<"execute:call", "updateRegistersDisplay", "updateFlagsDisplay", "execute:return",
    "runBtn.disabled = false">>

\* runCode: the statements of the callback given to setTimeout, in order;
\* the call of execute() and its return are two steps
callbackBody ==
  <<"execute:call", "execute:return", "updateRegistersDisplay", "updateFlagsDisplay",
    "runBtn.disabled = false">>

\* window load: the first example is put into the editor, the displays are
\* updated
Load ==
  /\ Idle
  /\ ~loaded
  /\ loaded' = TRUE
  /\ codeEditor' = basicExample("arm64")
  /\ snapshotRead' = ReadOf(currentSimulator)
  /\ UNCHANGED <<currentSimulator, runBtnDisabled, timers, task, executing, ran>>
  /\ UNCHANGED engineVars

\* The user types into the editor, or clearEditor() empties it.
Edit ==
  /\ Idle
  /\ \E text \in {"", "typed"} : codeEditor' = text
  /\ UNCHANGED <<currentSimulator, runBtnDisabled, timers, task, executing, ran, snapshotRead,
                 loaded>>
  /\ UNCHANGED engineVars

\* runCode(): nothing to run, or the button is disabled and the callback is
\* given to setTimeout with the text of the editor
runCode ==
  IF codeEditor = ""
    THEN UNCHANGED <<runBtnDisabled, timers>>
    ELSE /\ Len(timers) < MaxTimers
         /\ runBtnDisabled' = TRUE
         /\ timers' = Append(timers, [code |-> codeEditor, requestedOn |-> currentSimulator])

\* A click on the run button, which a disabled button does not take.
RunClick ==
  /\ Idle
  /\ ~runBtnDisabled
  /\ runCode
  /\ UNCHANGED <<currentSimulator, codeEditor, task, executing, ran, snapshotRead, loaded>>
  /\ UNCHANGED engineVars

\* Ctrl/Cmd + Enter in the editor: the keydown listener calls runCode().
RunKey ==
  /\ Idle
  /\ runCode
  /\ UNCHANGED <<currentSimulator, codeEditor, task, executing, ran, snapshotRead, loaded>>
  /\ UNCHANGED engineVars

\* switchArchitecture(): the change event of the select
SwitchArchitecture ==
  /\ Idle
  /\ \E a \in Architectures \ {currentSimulator} :
       /\ currentSimulator' = a
       /\ codeEditor' = basicExample(a)
       /\ ran' = [ran EXCEPT ![a] = ""]
       /\ snapshotRead' = ReadOf(a)
  /\ UNCHANGED <<runBtnDisabled, timers, task, executing, loaded>>
  /\ UNCHANGED engineVars

\* loadExample() with a valid choice: the example, reset(), the displays
LoadExample ==
  /\ Idle
  /\ codeEditor' = basicExample(currentSimulator)
  /\ ran' = [ran EXCEPT ![currentSimulator] = ""]
  /\ snapshotRead' = ReadOf(currentSimulator)
  /\ UNCHANGED <<currentSimulator, runBtnDisabled, timers, task, executing, loaded>>
  /\ UNCHANGED engineVars

\* The timer of the first waiting callback fires: the callback starts and
\* calls currentSimulator.execute(code).
TimerFire ==
  /\ Idle
  /\ timers # <<>>
  /\ callbackBody[1] = "execute:call"
  /\ task' = [at |-> 1, code |-> Head(timers).code, requestedOn |-> Head(timers).requestedOn,
              engine |-> currentSimulator]
  /\ timers' = Tail(timers)
  /\ executing' = [executing EXCEPT ![currentSimulator] = @ + 1]
  /\ ran' = [ran EXCEPT ![currentSimulator] = Head(timers).code]
  /\ UNCHANGED <<currentSimulator, codeEditor, runBtnDisabled, snapshotRead, loaded>>
  /\ UNCHANGED engineVars

\* The effect of one statement of the callback.
Statement(st) ==
  /\ executing' = IF st = "execute:return" THEN [executing EXCEPT ![task.engine] = @ - 1]
                  ELSE executing
  /\ snapshotRead' = IF st \in {"updateRegistersDisplay", "updateFlagsDisplay"}
                       THEN ReadOf(currentSimulator) ELSE snapshotRead
  /\ runBtnDisabled' = IF st = "runBtn.disabled = false" THEN FALSE ELSE runBtnDisabled

\* The running callback goes on by one statement; after the last it ends.
TimerStep ==
  /\ ~Idle
  /\ Statement(callbackBody[task.at + 1])
  /\ task' = IF task.at + 1 = Len(callbackBody) THEN NoTask ELSE [task EXCEPT !.at = @ + 1]
  /\ UNCHANGED <<currentSimulator, codeEditor, timers, ran, loaded>>
  /\ UNCHANGED engineVars

NextUI ==
  \/ Load \/ Edit \/ RunClick \/ RunKey \/ SwitchArchitecture \/ LoadExample
  \/ TimerFire \/ TimerStep

\* The page as the script has run: currentSimulator is the ARM64-like engine,
\* as constructed.
InitUI == Init /\ arch = "arm64"

\* The page: both engines as constructed, then the events in any order.
SpecUI == InitUI /\ [][NextUI]_vars

(* ---------------------------------------------------------------- claims *)

\* The last execute() call has returned and the engine was not touched since.
JustReturned == ~active /\ result.returned /\ output = result.output

\* The line the loop read last.
LastLine == lines[Len(lines)]

\* The source texts of n lines that begin with the lines ls.
RECURSIVE Completions(_, _, _)
Completions(a, ls, n) ==
  IF Len(ls) >= n THEN {ls}
  ELSE UNION {Completions(a, Append(ls, r), n) : r \in SourceLines(a)}

\* The engine and the result are those of the position p.
SameAs(p) == p.result = result /\ p.e = engine

\* C1: every execute(source) restarts from a clean state: whatever calls of
\* execute() and reset() came before, the result and the engine (registers,
\* flags, modified set, trace, line index) after the call are those of the
\* same call on an engine as constructed.
C1_CleanRestart ==
  JustReturned =>
    \A code \in Completions(arch, lines, nlines) : SameAs(execute(arch, reset(arch), code))

\* C1 witness: a call returned with success and with registers written, on an
\* engine that an earlier call had left in another state than constructed.
C1_Witness ==
  JustReturned /\ stale /\ result.success /\ modifiedRegisters # {} /\ Len(lines) = 2

\* The opcode of the line is RET.
IsRET(line) ==
  stripComment(line) # <<>> /\ toUpperCase(stripComment(line)[1]) = <<"R","E","T">>

\* The two entries a RET leaves at the end of the trace.
RetTrace(out) ==
  Append(Append(out, Entry("Programm beendet (RET)", <<>>, <<>>)),
         Entry("=== Programm erfolgreich beendet ===", <<>>, <<>>))

\* C2: a RET line is the last line the run reads: the call has returned with
\* success, the RET changed no register, flag or modified-set entry, the
\* trace ends with the RET entry and the closing entry, and whatever lines
\* follow the RET in the source (invalid ones too) the result is the same.
C2_RetHalts ==
  \A k \in 1..Len(lines) :
    IsRET(lines[k]) =>
      /\ k = Len(lines)
      /\ ~active
      /\ result.returned /\ result.success /\ ~result.hasError
      /\ result.output = RetTrace(before.output)
      /\ JustReturned =>
           /\ registers = before.registers
           /\ flags = before.flags
           /\ modifiedRegisters = before.modifiedRegisters
           /\ pc = k - 1
           /\ \A code \in Completions(arch, lines, nlines) :
                SameAs(execute(arch, reset(arch), code))

\* C2 witness: the run has ended at a RET and the source has a line after it.
C2_Witness ==
  /\ JustReturned
  /\ lines # <<>>
  /\ IsRET(lines[Len(lines)])
  /\ Len(lines) < nlines

\* The error entry of the trace for the 1-based line n and the message m.
ErrorEntry(n, m) == [kind |-> "FEHLER in Zeile", toks |-> <<>>, nums |-> <<n>>, msg |-> m]

\* The engine has the registers, flags and modified set of the position p, and
\* its trace is the trace of p with the entry last in place of p's last entry.
EffectsOf(p, last) ==
  /\ registers = p.e.registers
  /\ flags = p.e.flags
  /\ modifiedRegisters = p.e.modifiedRegisters
  /\ output = Append(SubSeq(p.e.output, 1, Len(p.e.output) - 1), last)

\* C3: the first line that raises an error ends the run: an error entry is
\* the last entry of the trace and the call has returned; the result has
\* success=false and the error; and registers, flags, modified set and trace
\* are those a run of the lines before the failing line leaves, with the
\* error entry where that run has its closing entry.
C3_FirstErrorEndsRun ==
  /\ \A j \in 1..Len(output) :
       output[j].kind = "FEHLER in Zeile" =>
         j = Len(output) /\ ~active /\ result.returned /\ ~result.success
  /\ (JustReturned /\ ~result.success) =>
       /\ result.hasError
       /\ result.error # NoMessage
       /\ Len(lines) = pc + 1
       /\ EffectsOf(execute(arch, reset(arch), SubSeq(lines, 1, Len(lines) - 1)),
                    ErrorEntry(Len(lines), result.error))

\* C3 witness: a run failed on its second line after its first line had
\* written a register and set a flag.
C3_Witness ==
  /\ JustReturned
  /\ ~result.success
  /\ Len(lines) = 2
  /\ modifiedRegisters # {}
  /\ flags # reset(arch).flags

\* The line is an instruction whose opcode the engine does not know.
IsUnknownOpcode(a, line) ==
  stripComment(line) # <<>> /\ toUpperCase(stripComment(line)[1]) \notin Opcodes(a)

\* The text x (a trace entry or an error message) states the line number n.
RefersToLine(x, n) ==
  "kind" \in DOMAIN x /\ x.kind = "FEHLER in Zeile" /\ x.nums = <<n>>

\* C4 as claimed: when the run fails at line N for an unknown opcode, the
\* error field of the result references line N.
C4_ErrorFieldNamesLine ==
  \A k \in 1..Len(lines) :
    (JustReturned /\ IsUnknownOpcode(arch, lines[k])) =>
      ~result.success /\ RefersToLine(result.error, k)

\* C4 as amended: when the run fails at line N (1-indexed) for an unknown
\* opcode, execute() returns success=false and the last entry of the returned
\* output, the error entry, references line N; the error field is the message
\* of that entry: the text of the instruction and the unknown opcode.
C4_ErrorEntryNamesLine ==
  \A k \in 1..Len(lines) :
    IsUnknownOpcode(arch, lines[k]) =>
      /\ k = Len(lines)
      /\ ~active /\ result.returned /\ ~result.success /\ result.hasError
      /\ RefersToLine(result.output[Len(result.output)], k)
      /\ result.output[Len(result.output)].msg = result.error
      /\ result.error = Message(stripComment(lines[k]), "Unbekannte Instruktion",
                                toUpperCase(stripComment(lines[k])[1]))

\* C4 witness: the run of "MOV X0, #1\nFOO X0, X0" has failed at line 2.
C4_Witness ==
  /\ JustReturned
  /\ arch = "arm64"
  /\ lines = << << <<"M","O","V">>, <<"X","0">>, <<"#","1">> >>,
                << <<"F","O","O">>, <<"X","0">>, <<"X","0">> >> >>
  /\ ~result.success

\* The run of the first k lines alone succeeds.
PrefixSucceeds(k) == execute(arch, reset(arch), SubSeq(lines, 1, k)).result.success

\* C5: on a failed run the last trace entry carries the number i+1 of the
\* failing line, i its 0-based index in the source: all lines read before it
\* are counted, blank and comment lines too, and the line of that number is
\* the one that raised the error, no line before it did.
C5_ErrorLineNumber ==
  (JustReturned /\ ~result.success) =>
    /\ output[Len(output)] = ErrorEntry(i + 1, result.error)
    /\ Len(lines) = i + 1
    /\ executeInstruction(arch, [before EXCEPT !.pc = i], lines[i + 1]).thrown
    /\ \A k \in 0..(i - 1) : PrefixSucceeds(k)
    /\ ~PrefixSucceeds(i + 1)

\* C5 witness: a run failed at line 2 after a blank or comment line 1.
C5_Witness ==
  /\ JustReturned
  /\ ~result.success
  /\ Len(lines) = 2
  /\ stripComment(lines[1]) = <<>>

\* The last line read made executeInstruction throw.
LastLineThrew ==
  /\ lines # <<>>
  /\ executeInstruction(arch, [before EXCEPT !.pc = Len(lines) - 1], LastLine).thrown

\* C6, in every state: the loop has read the lines 0..i-1, once each and in
\* this order, and i is at most the number of lines; a call that has ended
\* has returned a result; a line that threw ended the call with success=false
\* and the error in the result.
C6_Inv ==
  /\ active => (i = Len(lines) /\ i < nlines + 1 /\ ~result.returned)
  /\ (~active /\ nlines > 0) =>
       (result.returned /\ Len(lines) < nlines + 1 /\ (result.hasError <=> ~result.success))
  /\ (JustReturned /\ LastLineThrew) => (~result.success /\ result.hasError)

\* C6, in every step of a running call: the call ends, or the loop goes from
\* line i to line i+1 and has read that one line more.
C6_Step ==
  (active /\ active') =>
    /\ i' = i + 1
    /\ Len(lines') = Len(lines) + 1
    /\ SubSeq(lines', 1, Len(lines)) = lines
    /\ nlines' = nlines

\* C6: execute() terminates and returns a result after visiting each line at
\* most once, in increasing order; no failure of an instruction leaves the
\* call as an exception.
C6_Terminates ==
  /\ []C6_Inv
  /\ [][C6_Step]_vars
  /\ (active ~> (~active /\ result.returned))

\* C6 witness: a call has returned the failure of a malformed immediate
\* (a RangeError, not an Error of the engine) on its second line.
C6_Witness ==
  /\ JustReturned
  /\ Len(lines) = 2
  /\ ~result.success
  /\ result.error.text = "RangeError: NaN cannot be converted to a BigInt"

\* The last line read was executed without error and the engine was not
\* touched since, but for the closing entry of the trace.
LastLineExecuted ==
  lines # <<>> /\ (active \/ (JustReturned /\ result.success))

\* The line is an instruction with one of the opcodes ops.
IsOp(line, ops) ==
  stripComment(line) # <<>> /\ toUpperCase(stripComment(line)[1]) \in ops

\* The texts of the immediate n in the source lines.
Literals(n) == {Imm(n)} \cup (IF n = 42 THEN {<<"#","0","x","2","A">>} ELSE {})

\* The line is MOV or MOVZ of the immediate n to the register d.
IsMovImmediate(line, d, n) ==
  /\ IsOp(line, {<<"M","O","V">>, <<"M","O","V","Z">>})
  /\ Len(stripComment(line)) = 3
  /\ toUpperCase(stripComment(line)[2]) = d
  /\ stripComment(line)[3] \in Literals(n)

\* C7 as claimed: in the ARM64-like engine, MOV dest, #imm with dest not the
\* zero register leaves dest == imm and dest marked modified, the four flags
\* unchanged and every other register unchanged.
C7_MovImmediate ==
  \A d \in ARM64RegisterNames \ {XZR} :
    \A n \in {1, -1, 42, Over, Inexact} :
      (arch = "arm64" /\ LastLineExecuted /\ IsMovImmediate(LastLine, d, n)) =>
        /\ registers[d] = n
        /\ d \in modifiedRegisters
        /\ flags = before.flags
        /\ \A r \in ARM64RegisterNames \ {d} : registers[r] = before.registers[r]

\* The trace entry of the last line read.
LastEntry == output[Len(before.output) + 1]

CmpOps == {<<"C","M","P">>}

\* C8: a CMP that executed without error changed no register value and added
\* no register to the modified set; it appended its one entry to the trace.
C8_CmpFrame ==
  (LastLineExecuted /\ IsOp(LastLine, CmpOps)) =>
    /\ registers = before.registers
    /\ modifiedRegisters = before.modifiedRegisters
    /\ SubSeq(output, 1, Len(before.output)) = before.output
    /\ LastEntry.kind \in {"CMP: gleich (==)", "CMP: groesser (>)", "CMP: kleiner (<)"}
    /\ Len(output) = Len(before.output) + (IF active THEN 1 ELSE 2)

\* C8 witness: a CMP was executed on registers written before, and changed
\* the flags.
C8_Witness ==
  /\ LastLineExecuted
  /\ IsOp(LastLine, CmpOps)
  /\ before.modifiedRegisters # {}
  /\ flags # before.flags

BitwiseOps(a) ==
  IF a = "arm64" THEN {<<"A","N","D">>, <<"O","R","R">>, <<"E","O","R">>}
                 ELSE {<<"A","N","D">>, <<"O","R">>, <<"X","O","R">>}

\* The flags by their meaning, in either engine.
Carry(f) == IF arch = "arm64" THEN f.C ELSE f.CF

Overflow(f) == IF arch = "arm64" THEN f.V ELSE f.OF

Zero(f) == IF arch = "arm64" THEN f.Z ELSE f.ZF

Negative(f) == IF arch = "arm64" THEN f.N ELSE f.SF

\* The number of 1 bits among the low 8 bits of v (two's complement) is even.
EvenParity(v) == Cardinality({b \in 0..7 : (v \div (2 ^ b)) % 2 = 1}) % 2 = 0

\* C9: a bitwise instruction (AND/ORR/EOR, AND/OR/XOR) leaves Carry and
\* Overflow as they were before it; Zero and Negative (and Parity in the
\* x86-like engine) are recomputed from the result it printed.
C9_BitwiseKeepsCarry ==
  (LastLineExecuted /\ IsOp(LastLine, BitwiseOps(arch))) =>
    /\ Carry(flags) = Carry(before.flags)
    /\ Overflow(flags) = Overflow(before.flags)
    /\ Zero(flags) = (LastEntry.nums[3] = 0)
    /\ Negative(flags) = (LastEntry.nums[3] < 0)
    /\ arch = "x86" => flags.PF = EvenParity(LastEntry.nums[3])

\* C9 witness: a bitwise instruction was executed with Carry set by the
\* instruction before it, and changed the Zero flag.
C9_Witness ==
  /\ LastLineExecuted
  /\ IsOp(LastLine, BitwiseOps(arch))
  /\ Carry(before.flags)
  /\ Zero(flags) # Zero(before.flags)

FlagOps(a) ==
  IF a = "arm64"
    THEN {<<"S","U","B">>, <<"A","N","D">>, <<"O","R","R">>, <<"E","O","R">>, <<"C","M","P">>}
    ELSE {<<"A","D","D">>, <<"S","U","B">>, <<"A","N","D">>, <<"O","R">>, <<"X","O","R">>,
          <<"C","M","P">>, <<"I","N","C">>, <<"D","E","C">>}

\* The exact value of op on the values x and y.
ExactValue(op, x, y) ==
  CASE op \in {<<"S","U","B">>, <<"C","M","P">>} -> x - y
    [] op = <<"A","D","D">> -> x + y
    [] op = <<"A","N","D">> -> BitAnd(x, y)
    [] op \in {<<"O","R","R">>, <<"O","R">>} -> BitOr(x, y)
    [] op \in {<<"E","O","R">>, <<"X","O","R">>} -> BitXor(x, y)
    [] op = <<"I","N","C">> -> x + 1
    [] op = <<"D","E","C">> -> x - 1

\* The value the instruction parts computes on the engine e: its operands
\* as the engine reads them, combined exactly.
ExactResult(a, e, parts) ==
  IF a = "arm64"
    THEN IF toUpperCase(parts[1]) = <<"C","M","P">>
           THEN ExactValue(<<"C","M","P">>, ARM64_getRegister(e, parts[2]).v,
                           ARM64_operand(e, parts[3]).v)
           ELSE ExactValue(toUpperCase(parts[1]), ARM64_getRegister(e, parts[3]).v,
                           ARM64_operand(e, parts[4]).v)
    ELSE IF toUpperCase(parts[1]) \in {<<"I","N","C">>, <<"D","E","C">>}
           THEN ExactValue(toUpperCase(parts[1]), X86_getRegister(e, parts[2]).v, 0)
           ELSE ExactValue(toUpperCase(parts[1]), X86_getRegister(e, parts[2]).v,
                           X86_operand(e, parts[Len(parts)]).v)

\* C10: after every flag-affecting instruction that executed without error,
\* with the zero register as destination too, Zero is (result = 0) and
\* Negative/Sign is (result < 0), result the exact signed value computed.
C10_ZeroNegative ==
  (LastLineExecuted /\ IsOp(LastLine, FlagOps(arch))) =>
    /\ Zero(flags) = (ExactResult(arch, before, stripComment(LastLine)) = 0)
    /\ Negative(flags) = (ExactResult(arch, before, stripComment(LastLine)) < 0)

\* C10 witness: a flag-affecting instruction with the zero register as
\* destination computed a negative value.
C10_Witness ==
  /\ LastLineExecuted
  /\ IsOp(LastLine, FlagOps(arch))
  /\ toUpperCase(stripComment(LastLine)[2]) \in {XZR, WZR}
  /\ Negative(flags)
  /\ ~Zero(flags)

\* The engine of the running call before the loop read the last k lines.
EngineBefore(k) ==
  readLines(arch, executeBegin(arch, reset(arch)), SubSeq(lines, 1, Len(lines) - k), 0)

\* The lines add and sub are `ADD d, a, b` and `SUB d2, a, b` of the ARM64-like
\* engine, a and b registers, d and d2 two registers that are neither a source
\* nor the zero register.
IsAddSubPair(add, sub) ==
  /\ IsOp(add, {<<"A","D","D">>}) /\ Len(stripComment(add)) = 4
  /\ IsOp(sub, {<<"S","U","B">>}) /\ Len(stripComment(sub)) = 4
  /\ stripComment(add)[3] = stripComment(sub)[3]
  /\ stripComment(add)[4] = stripComment(sub)[4]
  /\ {toUpperCase(stripComment(add)[k]) : k \in 2..4} \subseteq ARM64RegisterNames
  /\ toUpperCase(stripComment(sub)[2]) \in ARM64RegisterNames
  /\ toUpperCase(stripComment(add)[2]) # toUpperCase(stripComment(sub)[2])
  /\ {toUpperCase(stripComment(add)[2]), toUpperCase(stripComment(sub)[2])}
       \cap {toUpperCase(stripComment(add)[3]), toUpperCase(stripComment(add)[4]), XZR} = {}

\* The last two lines read are such a pair, and both were executed.
AddSubExecuted ==
  /\ arch = "arm64"
  /\ LastLineExecuted
  /\ Len(lines) > 1
  /\ IsAddSubPair(lines[Len(lines) - 1], LastLine)

\* The register the line names as its operand k (1 the destination).
RegisterOf(line, k) == toUpperCase(stripComment(line)[k + 1])

NamesZeroDestination(line) ==
  /\ IsOp(line, Opcodes("arm64") \ {<<"C","M","P">>, <<"N","O","P">>, <<"R","E","T">>})
  /\ Len(stripComment(line)) > 1
  /\ toUpperCase(stripComment(line)[2]) \in {XZR, WZR}

\* The engine e can read the source operands of the instruction parts, which
\* has as many operands as its handler asks for.
SourcesReadable(e, parts) ==
  IF toUpperCase(parts[1]) \in {<<"M","O","V">>, <<"M","O","V","Z">>}
    THEN Len(parts) > 2 /\ ARM64_operand(e, parts[3]).ok
    ELSE Len(parts) > 3 /\ ARM64_getRegister(e, parts[3]).ok /\ ARM64_operand(e, parts[4]).ok

\* C12: in the ARM64-like engine the zero register reads as 0 in every
\* state, under both of its names; an instruction that names it as destination
\* and whose source operands can be read succeeds, changes no register value
\* and adds nothing to the modified set.
C12_ZeroRegister ==
  arch = "arm64" =>
    /\ registers[XZR] = 0
    /\ ARM64_getRegister(engine, XZR) = Value(0)
    /\ ARM64_getRegister(engine, <<"w","z","r">>) = Value(0)
    /\ XZR \notin modifiedRegisters /\ WZR \notin modifiedRegisters
    /\ (/\ lines # <<>>
        /\ active \/ JustReturned
        /\ NamesZeroDestination(LastLine)
        /\ SourcesReadable(before, stripComment(LastLine))) =>
         /\ LastLineExecuted
         /\ registers = before.registers
         /\ modifiedRegisters = before.modifiedRegisters

\* C12 witness: an instruction with the zero register as destination was
\* executed after a register was written, and computed a value other than 0.
C12_Witness ==
  /\ arch = "arm64"
  /\ LastLineExecuted
  /\ NamesZeroDestination(LastLine)
  /\ before.modifiedRegisters # {}
  /\ LastEntry.nums[Len(LastEntry.nums)] # 0

\* The stack pointer of either engine.
StackPointers == {<<"S","P">>, <<"R","S","P">>}

\* Every flag is false, every register is 0 except the stack pointer, which
\* is 0x7FFFFFF0, and no register is marked modified.
Cleared ==
  /\ \A f \in DOMAIN flags : ~flags[f]
  /\ \A r \in DOMAIN registers :
       registers[r] = IF r \in StackPointers THEN 2147483632 ELSE 0
  /\ DOMAIN registers \cap StackPointers # {}
  /\ modifiedRegisters = {}

\* C13: whatever operations came before it, reset() leaves every flag false,
\* every register 0 except the stack pointer (SP / RSP), which is 0x7FFFFFF0,
\* and no register marked modified.
C13_ResetClears == [][Reset => Cleared']_vars

\* C13 witness: reset() was called after a run that had written registers and
\* set flags: the result of the run is still there, the engine is cleared.
C13_Witness ==
  /\ ~active
  /\ result.returned
  /\ output = <<>>
  /\ Cleared
  /\ before.modifiedRegisters # {}
  /\ before.flags # reset(arch).flags

\* The sixteen uppercase hexadecimal digits.
UpperHexDigits == {DigitChars[k] : k \in 1..10} \cup {UpperLetters[k] : k \in 1..6}

\* The text is "0x" and exactly 16 uppercase hexadecimal digits.
IsHex16(h) ==
  /\ Len(h) = 18
  /\ SubSeq(h, 1, 2) = <<"0","x">>
  /\ \A k \in 3..18 : h[k] \in UpperHexDigits

\* C14 as claimed: in every state getRegisterState() has an entry for every
\* register of the engine but XZR, whose hex text is "0x" and exactly 16
\* uppercase hexadecimal digits: no sign, no more than 16 digits.
C14_HexText ==
  /\ DOMAIN getRegisterState(arch, engine) = DOMAIN registers \ {XZR}
  /\ \A reg \in DOMAIN getRegisterState(arch, engine) :
       IsHex16(getRegisterState(arch, engine)[reg].hex)

\* The value is a two's-complement integer of the register width.
InRegisterRange(v) == (0 - (2 ^ (WordBits - 1))) <= v /\ v <= (2 ^ (WordBits - 1)) - 1

\* C15 as claimed: in every state every register holds a two's-complement
\* integer of the register width (64 bits in the code).  The stack pointer
\* keeps the sentinel of reset(), a constant of the code that is not scaled
\* with the width and lies within 64 bits.
C15_RegisterRange ==
  \A reg \in DOMAIN registers :
    IF reg \in StackPointers
      THEN registers[reg] = StackSentinel \/ InRegisterRange(registers[reg])
      ELSE InRegisterRange(registers[reg])

\* The number of entries the last line read has appended to the trace: the
\* entries after those of before, less the closing entry of a call that has
\* returned.
EntriesOfLastLine == Len(output) - Len(before.output) - (IF active THEN 0 ELSE 1)

\* C16 as claimed: in both engines every line that holds a recognized opcode,
\* NOP and RET too, and executes without error appends exactly one entry to
\* the trace.
C16_OneEntryPerLine ==
  (LastLineExecuted /\ IsOp(LastLine, Opcodes(arch))) =>
    /\ EntriesOfLastLine = 1
    /\ SubSeq(output, 1, Len(before.output)) = before.output

\* The kinds of the entries that end a trace: the closing entry of a
\* successful call and the error entry of a failed one.
TerminalKinds == {"=== Programm erfolgreich beendet ===", "FEHLER in Zeile"}

\* The positions of the trace out that hold an entry of one of the kinds.
PositionsOf(out, kinds) == {k \in 1..Len(out) : out[k].kind \in kinds}

\* C17: the trace of every run starts with the start entry, which appears
\* nowhere else, and ends with exactly one terminal entry: the closing entry
\* if and only if the result has success=true, the error entry if and only if
\* it has success=false; a failed run has no closing entry, and a run has
\* success=true if and only if no line it read threw.  A call that has not
\* returned has no terminal entry in its trace.
C17_TraceShape ==
  /\ result.returned =>
       /\ PositionsOf(result.output, {"=== Programm Start ==="}) = {1}
       /\ PositionsOf(result.output, TerminalKinds) = {Len(result.output)}
       /\ result.success <=>
            result.output[Len(result.output)] = Entry("=== Programm erfolgreich beendet ===", <<>>, <<>>)
       /\ ~result.success <=> result.output[Len(result.output)].kind = "FEHLER in Zeile"
       /\ ~result.success => PositionsOf(result.output, {"=== Programm erfolgreich beendet ==="}) = {}
       /\ JustReturned => (result.success <=> ~LastLineThrew)
  /\ active =>
       /\ PositionsOf(output, {"=== Programm Start ==="}) = {1}
       /\ PositionsOf(output, TerminalKinds) = {}

\* C17 witness: a run has failed after it had executed an instruction: its
\* trace has entries between the start entry and the error entry.
C17_Witness ==
  /\ JustReturned
  /\ ~result.success
  /\ Len(result.output) > 2

\* The ten decimal digits.
DecimalDigits == {DigitChars[k] : k \in 1..10}

\* Every character of the text s is in the set.
AllIn(s, set) == \A k \in 1..Len(s) : s[k] \in set

\* The text, without a sign, is a decimal literal or a 0x-prefixed
\* hexadecimal literal.
IsLiteral(s) ==
  \/ s # <<>> /\ AllIn(s, DecimalDigits)
  \/ /\ Len(s) > 2
     /\ SubSeq(s, 1, 2) \in {<<"0","x">>, <<"0","X">>}
     /\ AllIn(toUpperCase(SubSeq(s, 3, Len(s))), UpperHexDigits)

\* The operand is written as an immediate: with '#' in the ARM64-like syntax,
\* with a digit or a sign at its head in the x86-like syntax.
IsImmediate(a, tok) ==
  /\ tok # <<>>
  /\ IF a = "arm64" THEN tok[1] = "#" ELSE tok[1] \in DecimalDigits \cup {"-"}

\* The text of the immediate without '#' and without a minus sign.
Unsigned(a, tok) ==
  removeFirst(IF a = "arm64" THEN removeFirst(tok, "#") ELSE tok, "-")

\* The line is an instruction with as many operands as its handler reads, the
\* last of them an immediate that is no well-formed literal.
HasMalformedImmediate(a, line) ==
  /\ IsOp(line, Opcodes(a) \ {<<"N","O","P">>, <<"R","E","T">>, <<"I","N","C">>, <<"D","E","C">>})
  /\ Len(stripComment(line)) > (IF a = "x86" \/ IsOp(line, {<<"M","O","V">>, <<"M","O","V","Z">>, <<"C","M","P">>}) THEN 2 ELSE 3)
  /\ IsImmediate(a, stripComment(line)[Len(stripComment(line))])
  /\ ~IsLiteral(Unsigned(a, stripComment(line)[Len(stripComment(line))]))

\* C18 as claimed: in both engines an instruction whose immediate operand is
\* not a well-formed decimal or 0x-prefixed hexadecimal literal fails: the
\* run ends with success=false and no value is written to a register.
C18_MalformedImmediate ==
  (/\ lines # <<>>
   /\ active \/ JustReturned
   /\ HasMalformedImmediate(arch, LastLine)) =>
     /\ JustReturned
     /\ ~result.success
     /\ registers = before.registers
     /\ modifiedRegisters = before.modifiedRegisters

\* The opcodes of the two-operand instructions of the x86-like engine.
TwoOperandOps ==
  {<<"A","D","D">>, <<"S","U","B">>, <<"M","U","L">>, <<"I","M","U","L">>, <<"A","N","D">>,
   <<"O","R">>, <<"X","O","R">>, <<"S","H","L">>, <<"S","H","R">>}

\* x OP y for the two-operand instruction op, as an exact integer.
TwoOperandValue(op, x, y) ==
  CASE op \in {<<"M","U","L">>, <<"I","M","U","L">>} -> x * y
    [] op = <<"S","H","L">> -> x * (2 ^ y)
    [] op = <<"S","H","R">> -> x \div (2 ^ y)
    [] OTHER -> ExactValue(op, x, y)

\* The value of the source operand src on the engine e: the register of that
\* name, or the literal.
SourceValue(e, src) ==
  IF toUpperCase(src) \in X86RegisterNames
    THEN e.registers[toUpperCase(src)]
    ELSE X86_parseImmediate(src).v

\* The last line read is `OP dest, src` of the x86-like engine, and was
\* executed.
TwoOperandExecuted ==
  /\ arch = "x86"
  /\ LastLineExecuted
  /\ IsOp(LastLine, TwoOperandOps)
  /\ Len(stripComment(LastLine)) = 3

\* C19: in the x86-like engine the destination of `OP dest, src`, OP one of
\* ADD/SUB/MUL/AND/OR/XOR/SHL/SHR, is its first source: afterwards dest is
\* (dest before) OP (src before, a register or a literal), and every other
\* register is as it was.
C19_DestinationIsFirstSource ==
  TwoOperandExecuted =>
    /\ registers[RegisterOf(LastLine, 1)] =
         TwoOperandValue(toUpperCase(stripComment(LastLine)[1]),
                         before.registers[RegisterOf(LastLine, 1)],
                         SourceValue(before, stripComment(LastLine)[3]))
    /\ \A reg \in X86RegisterNames \ {RegisterOf(LastLine, 1)} :
         registers[reg] = before.registers[reg]

\* C19 witness: AND RAX, RBX was executed with RAX == 0xFF and RBX == 0x0F
\* and has left RAX == 15.
C19_Witness ==
  /\ TwoOperandExecuted
  /\ stripComment(LastLine) = << <<"A","N","D">>, <<"R","A","X">>, <<"R","B","X">> >>
  /\ before.registers[<<"R","A","X">>] = 255
  /\ before.registers[<<"R","B","X">>] = 15
  /\ registers[<<"R","A","X">>] = 15

\* The opcodes of the instructions that do not affect flags.
NonFlagOps(a) ==
  IF a = "arm64"
    THEN {<<"M","O","V">>, <<"M","O","V","Z">>, <<"A","D","D">>, <<"M","U","L">>,
          <<"L","S","L">>, <<"L","S","R">>, <<"N","O","P">>}
    ELSE {<<"M","O","V">>, <<"M","U","L">>, <<"I","M","U","L">>, <<"S","H","L">>,
          <<"S","H","R">>, <<"N","O","P">>}

\* C20: an instruction that does not affect flags (ARM64-like MOV/MOVZ, ADD,
\* MUL, LSL, LSR, NOP; x86-like MOV, MUL/IMUL, SHL, SHR, NOP) leaves every
\* flag as it was before it, in any state.
C20_FlagsKept ==
  (LastLineExecuted /\ IsOp(LastLine, NonFlagOps(arch))) => flags = before.flags

\* C20 witness: such an instruction was executed with a flag set by the line
\* before it, and wrote a register.
C20_Witness ==
  /\ LastLineExecuted
  /\ IsOp(LastLine, NonFlagOps(arch))
  /\ \E f \in DOMAIN flags : before.flags[f]
  /\ registers # before.registers

\* The last line read is `LSR Xd, Xn, #s` of the ARM64-like engine, Xd not
\* the zero register, and was executed.
LsrExecuted ==
  /\ arch = "arm64"
  /\ LastLineExecuted
  /\ IsOp(LastLine, {<<"L","S","R">>})
  /\ Len(stripComment(LastLine)) = 4
  /\ RegisterOf(LastLine, 1) \in ARM64RegisterNames \ {XZR}
  /\ RegisterOf(LastLine, 2) \in ARM64RegisterNames
  /\ IsImmediate("arm64", stripComment(LastLine)[4])

\* C21 as claimed: in the ARM64-like engine `LSR Xd, Xn, #s` is a logical
\* right shift of the value of Xn within the register width (64 bits in the
\* code): the result is not negative and is (Xn mod 2^width) divided by 2^s,
\* rounded down, for negative Xn too.
C21_LogicalShiftRight ==
  LsrExecuted =>
    /\ registers[RegisterOf(LastLine, 1)] >= 0
    /\ registers[RegisterOf(LastLine, 1)] =
         (before.registers[RegisterOf(LastLine, 2)] % (2 ^ WordBits))
           \div (2 ^ ARM64_parseImmediate(stripComment(LastLine)[4]).v)

\* C22: under every interleaving of the UI events and the timer callbacks,
\* no register or flag snapshot of an engine is read while an execute() call
\* on that engine has started and not returned, and at most one execute()
\* call per engine is running at any time.
C22_NoReadDuringExecute ==
  /\ ~snapshotRead.executing
  /\ \A a \in Architectures : executing[a] \in {0, 1}
  /\ (\E a \in Architectures : executing[a] > 0) => ~Idle

\* C22 witness: a callback has called execute() on an engine, the call has
\* returned and the callback has read the snapshot of that engine, while a
\* second callback waits and the architecture was switched after the request.
C22_Witness ==
  /\ ~Idle
  /\ callbackBody[task.at] = "updateRegistersDisplay"
  /\ snapshotRead = [engine |-> task.engine, executing |-> FALSE]
  /\ task.engine # task.requestedOn
  /\ timers # <<>>


\* SUB and CMP, the two instructions that subtract.
SubtractOps == {<<"S","U","B">>, <<"C","M","P">>}

\* The value of the first operand of the subtraction parts as the engine e
\* reads it: Xn of SUB Xd, Xn, op2 and of CMP Xn, op2; the destination of the
\* x86 forms.
Minuend(a, e, parts) ==
  IF a = "arm64"
    THEN IF toUpperCase(parts[1]) = <<"C","M","P">>
           THEN ARM64_getRegister(e, parts[2]).v
           ELSE ARM64_getRegister(e, parts[3]).v
    ELSE X86_getRegister(e, parts[2]).v

\* The value of its second operand.
Subtrahend(a, e, parts) ==
  IF a = "arm64"
    THEN IF toUpperCase(parts[1]) = <<"C","M","P">>
           THEN ARM64_operand(e, parts[3]).v
           ELSE ARM64_operand(e, parts[4]).v
    ELSE X86_operand(e, parts[Len(parts)]).v

\* C23: after every SUB or CMP that executed without error, on either
\* engine, with operand values a and b, Carry is ((a + (-b)) > 2^64 - 1) on
\* the exact signed integers.
C23_SubtractCarry ==
  (LastLineExecuted /\ IsOp(LastLine, SubtractOps)) =>
    Carry(flags) = ((Minuend(arch, before, stripComment(LastLine))
                      + (0 - Subtrahend(arch, before, stripComment(LastLine)))) > mask64)

\* C23 witness: a SUB or CMP whose second operand is negative set Carry.
C23_Witness ==
  /\ LastLineExecuted
  /\ IsOp(LastLine, SubtractOps)
  /\ Subtrahend(arch, before, stripComment(LastLine)) < 0
  /\ Carry(flags)


\* INC and DEC of the x86-like engine, and what each adds to its register.
StepOps == {<<"I","N","C">>, <<"D","E","C">>}

StepDelta(line) == IF IsOp(line, {<<"I","N","C">>}) THEN 1 ELSE -1

\* C24: in the x86-like engine, after INC r or DEC r executed without error,
\* CF is ((old r) + 1 > 2^64 - 1) after INC, ((old r) + (-1) > 2^64 - 1)
\* after DEC, whatever CF held before the instruction.
C24_StepCarry ==
  (arch = "x86" /\ LastLineExecuted /\ IsOp(LastLine, StepOps)) =>
    flags.CF = ((before.registers[RegisterOf(LastLine, 1)] + StepDelta(LastLine)) > mask64)


\* C25: in the x86-like engine, after every flag-affecting instruction (ADD,
\* SUB, AND, OR, XOR, CMP, INC, DEC) that executed without error, PF is true
\* exactly when the number of 1 bits in the low 8 bits of the result, in two's
\* complement when it is negative, is even.
C25_Parity ==
  (arch = "x86" /\ LastLineExecuted /\ IsOp(LastLine, FlagOps("x86"))) =>
    flags.PF = EvenParity(ExactResult("x86", before, stripComment(LastLine)))

\* C25 witness: a flag-affecting instruction of the x86-like engine computed
\* a negative result with an even number of 1 bits in its low 8 bits.
C25_Witness ==
  /\ arch = "x86"
  /\ LastLineExecuted
  /\ IsOp(LastLine, FlagOps("x86"))
  /\ ExactResult("x86", before, stripComment(LastLine)) < 0
  /\ flags.PF


\* The least number of tokens, the opcode one of them, the handler of the
\* opcode op accepts: the bound of its first check of parts.length.
MinArity(a, op) ==
  IF a = "arm64"
    THEN IF op \in {<<"M","O","V">>, <<"M","O","V","Z">>, <<"C","M","P">>} THEN 3 ELSE 4
    ELSE IF op \in {<<"I","N","C">>, <<"D","E","C">>} THEN 2 ELSE 3

\* The opcodes whose handlers take operands.
OperandOps(a) == Opcodes(a) \ {<<"N","O","P">>, <<"R","E","T">>}

\* What the handlers say when they throw for the number of tokens.
ArityTexts ==
  {"MOV benoetigt Ziel und Quelle", "benoetigt Ziel, Operand1 und Operand2",
   "CMP benoetigt zwei Operanden", "benoetigt mindestens Ziel und Quelle",
   "benoetigt ein Register"}

\* The call has just returned the failure of its last line, an error about
\* the number of tokens.
ArityFailure ==
  /\ JustReturned
  /\ ~result.success
  /\ result.hasError
  /\ result.error.text \in ArityTexts

\* C26: in both engines a line with fewer tokens, the opcode included, than
\* the least number its opcode takes (ARM64-like: MOV/MOVZ 3,
\* ADD/SUB/MUL/AND/ORR/EOR/LSL/LSR 4, CMP 3; x86-like: MOV/ADD/SUB/MUL/AND/OR/
\* XOR/SHL/SHR/CMP 3, INC/DEC 2) ends the run with success=false; a line with
\* at least that number of tokens never fails for its number of tokens.
C26_Arity ==
  (/\ lines # <<>>
   /\ active \/ JustReturned
   /\ IsOp(LastLine, OperandOps(arch))) =>
     (Len(stripComment(LastLine)) < MinArity(arch, toUpperCase(stripComment(LastLine)[1])))
        = ArityFailure

\* C26 witness: a run that had written a register has ended on a line with
\* its opcode and too few operands.
C26_Witness ==
  /\ lines # <<>>
  /\ IsOp(LastLine, OperandOps(arch))
  /\ Len(stripComment(LastLine)) = MinArity(arch, toUpperCase(stripComment(LastLine)[1])) - 1
  /\ ArityFailure
  /\ before.modifiedRegisters # {}


\* The names an engine resolves: the keys of this.registers, and WZR, which
\* the ARM64-like engine answers without looking at them.
KnownNames(a) == IF a = "arm64" THEN ARM64RegisterNames \cup {WZR} ELSE X86RegisterNames

\* The positions in parts of the register operands an instruction of the
\* engine a resolves by name: in the ARM64-like engine the destination and
\* every source that does not start with '#', in the x86-like engine the
\* first operand.
RegisterOperands(a, parts) ==
  IF a = "arm64"
    THEN {k \in 2..MinArity(a, toUpperCase(parts[1])) : ~startsWith(parts[k], <<"#">>)}
    ELSE {2}

\* The line is an instruction with as many tokens as its handler asks for, one
\* of its register operands a name the engine does not know.
NamesUnknownRegister(a, line) ==
  /\ IsOp(line, OperandOps(a))
  /\ Len(stripComment(line)) >= MinArity(a, toUpperCase(stripComment(line)[1]))
  /\ \E k \in RegisterOperands(a, stripComment(line)) :
       toUpperCase(stripComment(line)[k]) \notin KnownNames(a)

\* The call has just returned the failure of its last line, an
\* unknown-register error that names a register the engine does not know.
UnknownRegisterFailure ==
  /\ JustReturned
  /\ ~result.success
  /\ result.hasError
  /\ result.error.text = "Unbekanntes Register"
  /\ result.error.arg \notin KnownNames(arch)

\* The handler of MOV reads its source before it resolves its destination:
\* the source of the instruction parts is no register and no number.
SourceFailsFirst(a, e, parts) ==
  /\ toUpperCase(parts[1]) \in {<<"M","O","V">>, <<"M","O","V","Z">>}
  /\ IF a = "arm64" THEN ~ARM64_operand(e, parts[3]).ok /\ startsWith(parts[3], <<"#">>)
                     ELSE ~X86_operand(e, parts[3]).ok

\* The second source of a three-operand instruction of the ARM64-like engine
\* is read before the destination is resolved: it is an immediate that is no
\* number, and the first source is a register.
ImmediateFailsFirst(a, e, parts) ==
  /\ a = "arm64"
  /\ toUpperCase(parts[1]) \notin {<<"M","O","V">>, <<"M","O","V","Z">>, <<"C","M","P">>}
  /\ ARM64_getRegister(e, parts[3]).ok
  /\ startsWith(parts[4], <<"#">>)
  /\ ~ARM64_parseImmediate(parts[4]).ok

\* C27 as claimed: a register operand whose case-folded name is not in the
\* register set of the engine makes the instruction fail with an
\* unknown-register error and ends the run (ARM64-like: destination and every
\* source that does not start with '#'; x86-like: the first operand); the set
\* of register names is the same in every state.
C27_UnknownRegister ==
  /\ DOMAIN registers = (IF arch = "arm64" THEN ARM64RegisterNames ELSE X86RegisterNames)
  /\ (/\ lines # <<>>
      /\ active \/ JustReturned
      /\ NamesUnknownRegister(arch, LastLine)) => UnknownRegisterFailure

\* C27, corrected: such an instruction fails and ends the run with
\* success=false, and no register is added or written; the error is the
\* unknown-register error unless the handler has failed on an operand it
\* reads before it resolves the unknown name (MOV reads its source first, the
\* three-operand handlers of the ARM64-like engine write the destination
\* last), and then it is the error of that operand.
C27_UnknownRegisterUnlessEarlierFailure ==
  /\ DOMAIN registers = (IF arch = "arm64" THEN ARM64RegisterNames ELSE X86RegisterNames)
  /\ (/\ lines # <<>>
      /\ active \/ JustReturned
      /\ NamesUnknownRegister(arch, LastLine)) =>
        /\ JustReturned
        /\ ~result.success
        /\ registers = before.registers
        /\ modifiedRegisters = before.modifiedRegisters
        /\ IF SourceFailsFirst(arch, before, stripComment(LastLine))
              \/ ImmediateFailsFirst(arch, before, stripComment(LastLine))
             THEN result.error.text = "RangeError: NaN cannot be converted to a BigInt"
             ELSE UnknownRegisterFailure

\* C27 witness: a run that had written a register has ended on an instruction
\* whose destination is no register of the engine and whose sources can be
\* read, with the unknown-register error.
C27_Witness ==
  /\ lines # <<>>
  /\ NamesUnknownRegister(arch, LastLine)
  /\ toUpperCase(stripComment(LastLine)[2]) \notin KnownNames(arch)
  /\ UnknownRegisterFailure
  /\ before.modifiedRegisters # {}


\* The index of the first lexeme of the line that is "//" or ";", one past
\* the end of the line if it has none.
FirstMarker(line) ==
  IF \E k \in 1..Len(line) : line[k] \in {<<"/","/">>, <<";">>}
    THEN CHOOSE k \in 1..Len(line) :
           /\ line[k] \in {<<"/","/">>, <<";">>}
           /\ \A j \in 1..(k - 1) : line[j] \notin {<<"/","/">>, <<";">>}
    ELSE Len(line) + 1

\* The line without its comment.
Uncommented(line) == SubSeq(line, 1, FirstMarker(line) - 1)

\* The line is blank, a full-line comment, or has no token before its
\* inline comment.
IsSkipped(line) == Uncommented(line) = <<>>

\* The engine and the result are those the iteration of the loop that ended
\* in the position p leaves: p itself while the call runs or when the line
\* ended it, p and the end of the call otherwise.
LeftBy(p) ==
  IF active \/ p.done
    THEN engine = p.e /\ active = ~p.done /\ result = p.result
    ELSE engine = executeEnd(p.e).e /\ result = executeEnd(p.e).result

\* C28: in both engines a blank line, a full-line comment (// or ;) and a
\* line with no token before its inline comment are skipped: no register,
\* flag or modified-set entry changes, nothing is appended to the trace and
\* no error is raised; and the text after an inline comment marker never
\* affects the state: the line leaves what the line without its comment
\* leaves.
C28_SkippedLines ==
  (lines # <<>> /\ (active \/ JustReturned)) =>
    /\ IsSkipped(LastLine) =>
         /\ LastLineExecuted
         /\ registers = before.registers
         /\ flags = before.flags
         /\ modifiedRegisters = before.modifiedRegisters
         /\ output = IF active THEN before.output ELSE executeEnd(before).e.output
    /\ LeftBy(executeLine(arch, before, Len(lines) - 1, Uncommented(LastLine)))

\* C28 witness: a full-line comment that holds the text of an instruction
\* was skipped after a register had been written.
C28_Witness ==
  /\ LastLineExecuted
  /\ LastLine # <<>>
  /\ IsSkipped(LastLine)
  /\ Len(LastLine) > 2
  /\ before.modifiedRegisters # {}


\* What the errors of a failed instruction say: the number of tokens, a name
\* that is no register, an immediate or a shift amount that is no number, an
\* opcode that is none.
InstructionFailures ==
  ArityTexts \cup {"Unbekanntes Register", "RangeError: NaN cannot be converted to a BigInt",
                   "Unbekannte Instruktion"}

\* The engine e has the registers, flags and modified set of the engine f.
SameRegisterState(e, f) ==
  /\ e.registers = f.registers
  /\ e.flags = f.flags
  /\ e.modifiedRegisters = f.modifiedRegisters

\* C29: in both engines an instruction that fails (number of tokens, unknown
\* register as source or destination, malformed immediate, invalid shift
\* amount) is atomic: when the error is raised, and when the call has
\* returned it, no register value, no flag and no modified-set entry differs
\* from the state before the instruction.
C29_FailureIsAtomic ==
  (JustReturned /\ LastLineThrew) =>
    /\ result.error.text \in InstructionFailures
    /\ SameRegisterState(executeInstruction(arch, [before EXCEPT !.pc = Len(lines) - 1],
                                            LastLine).e, before)
    /\ SameRegisterState(engine, before)

\* C29 witness: an instruction that names registers and affects flags has
\* failed after a register had been written and a flag set, its operands
\* such that the flags would have changed.
C29_Witness ==
  /\ JustReturned
  /\ LastLineThrew
  /\ IsOp(LastLine, FlagOps(arch))
  /\ Len(stripComment(LastLine)) >= MinArity(arch, toUpperCase(stripComment(LastLine)[1]))
  /\ result.error.text = "Unbekanntes Register"
  /\ before.modifiedRegisters # {}
  /\ \E f \in DOMAIN flags : flags[f]


ThreeOperandForm ==
  /\ arch = "x86"
  /\ lines # <<>>
  /\ active \/ JustReturned
  /\ IsOp(LastLine, TwoOperandOps)
  /\ Len(stripComment(LastLine)) = 4
  /\ RegisterOf(LastLine, 1) \in X86RegisterNames
  /\ X86_operand(before, stripComment(LastLine)[4]).ok

\* The instruction parts without its middle operand.
WithoutMiddle(parts) == <<parts[1], parts[2], parts[4]>>

\* C31: in the x86-like engine `OP dest, x, y`, OP one of ADD/SUB/MUL/AND/OR/
\* XOR/SHL/SHR, ignores x: x is neither read nor validated, an unknown name
\* there raises no error, and afterwards dest is (dest before) OP (value of
\* y); the line leaves what `OP dest, y` leaves.
C31_MiddleOperandIgnored ==
  ThreeOperandForm =>
    /\ LastLineExecuted
    /\ registers[RegisterOf(LastLine, 1)] =
         TwoOperandValue(toUpperCase(stripComment(LastLine)[1]),
                         before.registers[RegisterOf(LastLine, 1)],
                         SourceValue(before, stripComment(LastLine)[4]))
    /\ \A reg \in X86RegisterNames \ {RegisterOf(LastLine, 1)} :
         registers[reg] = before.registers[reg]
    /\ LeftBy(executeLine(arch, before, Len(lines) - 1, WithoutMiddle(stripComment(LastLine))))

\* C31 witness: such an instruction whose middle operand is no register and
\* no number was executed and has changed its destination.
C31_Witness ==
  /\ ThreeOperandForm
  /\ LastLineExecuted
  /\ ~X86_operand(before, stripComment(LastLine)[3]).ok
  /\ registers[RegisterOf(LastLine, 1)] # before.registers[RegisterOf(LastLine, 1)]


\* The executions that were requested and have not completed: the callbacks
\* that wait for their timer and the one that runs.
PendingExecutions == Len(timers) + (IF Idle THEN 0 ELSE 1)

\* C32 as claimed: at most one deferred execution is pending at any time:
\* between a run request and the completion of its timer callback no further
\* run request, by the run button or by Ctrl/Cmd+Enter, schedules a second
\* execution.
C32_OnePendingExecution == PendingExecutions <= 1

\* C33 as claimed: the text captured by a run request is executed on the
\* engine that was selected when the run was requested, also when the
\* architecture is switched between the request and the firing of its
\* callback.
C33_ExecutedOnRequestedEngine ==
  ~Idle => (task.engine = task.requestedOn /\ ran[task.requestedOn] = task.code)

====
